---- MODULE Spec2Model ----
(***************************************************************************)
(* Model of the webpage analyser: Analyzer.Analyze (cache lookup, URL      *)
(* validation, page fetch, parse, link analysis, cache write) and the      *)
(* worker pool of Analyzer.analyzeLinks / Analyzer.linkWorker.             *)
(***************************************************************************)
EXTENDS Integers, Sequences, FiniteSets, Bags, TLC

(* ---------------------------------------------------------------------- *)
(* Bounds of the model                                                     *)
(* ---------------------------------------------------------------------- *)
MaxLinksBound == 2       \* config.Analyzer.MaxLinks ranges over 1..MaxLinksBound
MaxWorkersBound == 2     \* config.Analyzer.MaxWorkers ranges over 1..MaxWorkersBound
MaxDocLinks == 2         \* a[href] elements in a fetched document
MaxLead == 2             \* items of markup before the DOCTYPE declaration
MaxWords == 3            \* distinct phrases inside a DOCTYPE declaration
MaxEvaluations == 2      \* evaluations of detectHTMLVersion on one markup
MaxElements == 3         \* elements of a document handed to countHeadings
MaxItems == 5            \* forms, action attributes, form controls and tags of a page
MaxRequests == 3         \* requests that reach the server
MaxBurst == 2            \* RateLimiter.burst ranges over 0..MaxBurst
MaxRedirectsBound == 2   \* config.Analyzer.MaxRedirects ranges over 0..MaxRedirectsBound

(* ---------------------------------------------------------------------- *)
(* Program constants                                                       *)
(* ---------------------------------------------------------------------- *)
StatusOK == 200
StatusBadRequest == 400
StatusTooManyRequests == 429
StatusInternalServerError == 500
MaxURLLength == 2048
DefaultLoginFormThreshold == 10

(* ---------------------------------------------------------------------- *)
(* Values                                                                  *)
(* ---------------------------------------------------------------------- *)
\* A URL string, given by what url.Parse makes of it.
TargetURLs ==
    { [raw |-> "http://example.com",  parses |-> TRUE,  Scheme |-> "http",  Host |-> "example.com"],
      [raw |-> "invalid-url",         parses |-> TRUE,  Scheme |-> "",      Host |-> ""],
      [raw |-> "ftp://example.com",   parses |-> TRUE,  Scheme |-> "ftp",   Host |-> "example.com"],
      [raw |-> "http://",             parses |-> TRUE,  Scheme |-> "http",  Host |-> ""],
      [raw |-> "http://[::1",         parses |-> FALSE, Scheme |-> "",      Host |-> ""] }

\* A URL string by its parts: scheme (followed by ":" when not empty),
\* authority (preceded by "//" when present), path, fragment (preceded by "#"
\* when present).  With an authority the path is empty or starts with "/".
RawURLs ==
    { [scheme |-> s, authority |-> a, path |-> p, frag |-> f] :
        s \in {"", "http", "https", "HTTP", "ftp"},
        a \in {<< >>},
        p \in {"", "not-a-url"},
        f \in {<< >>, << "" >>, << "top" >>} }
    \cup
    { [scheme |-> s, authority |-> << h >>, path |-> p, frag |-> f] :
        s \in {"", "http", "https", "HTTP", "ftp"},
        h \in {"", "example.com", "example .com", "[::1"},
        p \in {"", "/path"},
        f \in {<< >>, << "" >>, << "top" >>} }

\* strings.ToLower on the scheme
ToLower(s) == IF s = "HTTP" THEN "http" ELSE s

\* url.Parse: it fails on a host with a space or an unclosed bracket; the
\* scheme is lower-cased; without "//" what follows a scheme is opaque; the
\* fragment is kept as text, so that an empty fragment is the same as none.
urlParse(r) ==
    LET host == IF r.authority = << >> THEN "" ELSE r.authority[1]
        opaque == r.scheme # "" /\ r.authority = << >> /\ r.path # ""
    IN  [ok |-> host \notin {"example .com", "[::1"},
         Scheme |-> ToLower(r.scheme),
         Opaque |-> IF opaque THEN r.path ELSE "",
         Host |-> host,
         Path |-> IF opaque THEN "" ELSE r.path,
         Fragment |-> IF r.frag = << >> THEN "" ELSE r.frag[1]]

\* (*url.URL).String, as the parts of the string it builds
urlString(u) ==
    [scheme |-> u.Scheme,
     authority |-> IF u.Host # "" THEN << u.Host >>
                   ELSE IF u.Scheme # "" /\ u.Path # "" THEN << "" >>
                   ELSE << >>,
     path |-> IF u.Opaque # "" THEN u.Opaque ELSE u.Path,
     frag |-> IF u.Fragment = "" THEN << >> ELSE << u.Fragment >>]

\* a URL string together with what url.Parse makes of it
URLOf(r) ==
    LET u == urlParse(r) IN
    [raw |-> r, parses |-> u.ok,
     Scheme |-> IF u.ok THEN u.Scheme ELSE "",
     Host |-> IF u.ok THEN u.Host ELSE ""]

\* An href attribute: whether baseURL.Parse accepts it, and the host it names
\* ("" for a relative reference, which inherits the base URL's host).
Hrefs ==
    { [ok |-> TRUE,  Host |-> ""],
      [ok |-> TRUE,  Host |-> "other.com"],
      [ok |-> FALSE, Host |-> ""] }

\* Documents: the a[href] elements in document order.
Docs == UNION { [1..n -> Hrefs] : n \in 0..MaxDocLinks }

\* The answers a HEAD probe can get.
ProbeStatuses == {200, 301, 400, 404, 500}
ProbeErrors == {"request", "transport", "timeout"}
Canceled == [err |-> "canceled", status |-> 0]
ProbeOutcomes ==
    { [err |-> e, status |-> 0] : e \in ProbeErrors }
    \cup { [err |-> "", status |-> s] : s \in ProbeStatuses }

NoAnswer == [err |-> "none", status |-> 0, body |-> << >>]

\* The answers the primary GET can get: a transport failure, or a response
\* with its final status and the body the server sent, which may fail to be
\* read.
FetchStatuses == {200, 204, 301, 404, 500}
FetchOutcomes ==
    { [err |-> "transport", status |-> 0, body |-> << >>] }
    \cup { [err |-> "", status |-> s, body |-> d] : s \in FetchStatuses, d \in Docs }
    \cup { [err |-> "body", status |-> StatusOK, body |-> d] : d \in Docs }

\* error values; NilErr is Go's nil error
NilErr == [kind |-> "nil", code |-> 0]
Error(k, c) == [kind |-> k, code |-> c]

\* models.LinkAnalysis and models.AnalyzeResponse; a *AnalyzeResponse is a
\* sequence of length <= 1, << >> being the nil pointer
LinkAnalysis(i, e, x) == [Internal |-> i, External |-> e, Inaccessible |-> x]
AnalyzeResponse(u, l) == [URL |-> u, Links |-> l]
\* what a cache filled by an earlier call holds for a URL string
CachedResult(u) == AnalyzeResponse(u.raw, LinkAnalysis(2, 1, 0))

\* What cache.Get returns: (result, error)
CacheReturn(r, e) == [result |-> r, err |-> e]
NoReturn == CacheReturn(<< >>, NilErr)

linkCheckRequest(u, internal) == [url |-> u, isInternal |-> internal]
NoRequest == linkCheckRequest(0, FALSE)

\* per link: what checkLinkWithTimeout returned for it ("none" before the
\* probe), and whether the probe failed
NoOutcome == [returned |-> "none", failed |-> FALSE]

\* A probe fails when no response is received (the request cannot be built,
\* transport error, timeout, cancellation) or the status is 400 or more.
ProbeFailed(o) == o.err # "" \/ o.status >= 400

\* history of the tasks of a document of n links: nothing received, probed,
\* sent or counted yet
Flow(n) ==
    [taken |-> [i \in 1..n |-> 0], probed |-> [i \in 1..n |-> 0],
     sent |-> 0, counted |-> 0]
NoFlow == Flow(0)

\* a buffered Go channel
MakeChan == [buf |-> << >>, closed |-> FALSE]

VARIABLES
    targetURL,      \* argument of Analyze
    ctxDone,        \* the context passed to Analyze has been cancelled
    config,         \* a.config.Analyzer: MaxLinks, MaxWorkers
    cacheClient,    \* Cache.client: "redis" or "nil" (no-op cache)
    store,          \* what the cache store holds under key(targetURL)
    pc,             \* position of the goroutine running Analyze
    result, err,    \* what Analyze returned
    parsedURL,      \* result of parseAndValidateURL
    doc,            \* parsed document
    analysis,       \* analyzeLinks: var analysis models.LinkAnalysis
    externalLinks, internalLinks,
    idx,            \* loop position: element of the walk, or loop index
    linksToCheck, internalLinksToCheck,
    wg,             \* sync.WaitGroup counter
    linkChan, resultChan,
    workers,        \* the linkWorker goroutines: a bag of their local states
    cpc,            \* the goroutine running wg.Wait(); close(resultChan)
    getRet,         \* (result, err) of cache.Get, in scope in lines 80-84
    setRet,         \* err of cache.Set
    outcome,        \* history: per link, what its probe returned and whether it failed
    flow,           \* history: per link, how often it was received and probed; results sent and counted
    enqueued,       \* history: the requests sent on linkChan, in order
    invoked,        \* history: steps of Analyze that were invoked
    fetchCanceled,  \* history: ctx was cancelled while the GET was in flight
    fetchAnswer,    \* history: the answer the GET got
    hit,            \* history: the non-nil result cache.Get returned without error
    htmlContent,    \* performWebpageAnalysis: the raw markup
    HTMLVersion,    \* the labels detectHTMLVersion returned, one per evaluation
    headingDoc,     \* the elements of the parsed document, for countHeadings
    Headings,       \* what countHeadings returned
    formDoc,        \* the forms and meta/link tags of the parsed document
    HasLoginForm,   \* what detectLoginForm returned
    rateLimit,      \* viper: rate_limit.enabled, and RateLimiter.burst
    ips,            \* RateLimiter.ips: per client IP, the tokens of its limiter
    c,              \* gin.Context of the request being served
    served,         \* history: number of requests that have arrived
    allowedBy,      \* history: per client IP, the requests its limiter allowed
    do              \* one http.Client.Do: the client, the answers so far, what it returned

vars == << targetURL, ctxDone, config, cacheClient, store, pc, result, err,
           parsedURL, doc, analysis, externalLinks, internalLinks, idx,
           linksToCheck, internalLinksToCheck, wg, linkChan, resultChan,
           workers, cpc, getRet, setRet, outcome, flow, enqueued,
           invoked, fetchCanceled, fetchAnswer, hit,
           htmlContent, HTMLVersion, headingDoc, Headings, formDoc,
           HasLoginForm, rateLimit, ips, c, served, allowedBy, do >>

\* the HTTP exchange of one client.Do
httpVars == << do >>

\* the state of the HTTP server in front of Analyze
serverVars == << rateLimit, ips, c, served, allowedBy >>
cfgVars == << targetURL, config, cacheClient >>
\* the parts of the page only the extractors of performWebpageAnalysis read,
\* and what they returned
pageVars == << htmlContent, HTMLVersion, headingDoc, Headings, formDoc,
               HasLoginForm >>
linkVars == << analysis, externalLinks, internalLinks, idx, linksToCheck,
               internalLinksToCheck, wg, linkChan, resultChan, workers,
               cpc, outcome, flow, enqueued >>
hist == << invoked, fetchCanceled, fetchAnswer, hit >>
cacheRets == << getRet, setRet >>

\* Local state of a linkWorker goroutine: its position, linkReq, accessible.
\* The goroutines of the pool run the same code and have no identity.
Worker(p, req, acc) == [pc |-> p, linkReq |-> req, accessible |-> acc]

NoURL == [raw |-> "", parses |-> FALSE, Scheme |-> "", Host |-> ""]

\* the locals of analyzeLinks before the call
LinkLocalsInit ==
    /\ analysis = LinkAnalysis(0, 0, 0)
    /\ externalLinks = << >>
    /\ internalLinks = << >>
    /\ idx = 0
    /\ linksToCheck = 0
    /\ internalLinksToCheck = 0
    /\ wg = 0
    /\ linkChan = MakeChan
    /\ resultChan = MakeChan
    /\ workers = EmptyBag
    /\ cpc = "unborn"

\* no request has reached the server
NoTraffic ==
    /\ rateLimit = [enabled |-> FALSE, burst |-> 0]
    /\ ips = << >>
    /\ c = << >>
    /\ served = 0
    /\ allowedBy = << >>

\* a page without markup, headings, forms or tags, not yet analysed
NoPage ==
    /\ htmlContent = << >>
    /\ HTMLVersion = << >>
    /\ headingDoc = << >>
    /\ Headings = << >>
    /\ formDoc = [forms |-> << >>, tags |-> {}]
    /\ HasLoginForm = << >>

\* State after NewAnalyzer, at the entry of Analyze.
Init ==
    /\ targetURL \in TargetURLs
    /\ ctxDone = FALSE
    /\ config \in [MaxLinks : 1..MaxLinksBound, MaxWorkers : 1..MaxWorkersBound]
    /\ cacheClient \in {"redis", "nil"}
    /\ store \in IF cacheClient = "nil" THEN {<< >>}
                 ELSE {<< >>, << CachedResult(targetURL) >>}
    /\ pc = "cache_get"
    /\ result = << >>
    /\ err = NilErr
    /\ parsedURL = NoURL
    /\ doc = << >>
    /\ LinkLocalsInit
    /\ getRet = NoReturn
    /\ setRet = NilErr
    /\ outcome = << >>
    /\ flow = NoFlow
    /\ enqueued = << >>
    /\ invoked = {}
    /\ fetchCanceled = FALSE
    /\ fetchAnswer = NoAnswer
    /\ hit = << >>
    /\ NoTraffic
    /\ do = << >>
    /\ NoPage

(* ---------------------------------------------------------------------- *)
(* Cache                                                                   *)
(* ---------------------------------------------------------------------- *)
\* Cache.Get: the (result, error) pairs it can return
CacheGetReturns ==
    IF cacheClient = "nil" THEN { NoReturn }
    ELSE { CacheReturn(<< >>, Error("failed to get from cache", 0)) }
         \cup (IF store = << >> THEN { NoReturn }
                                ELSE { CacheReturn(store, NilErr) })

\* Cache.Set: the errors it can return
CacheSetReturns ==
    IF cacheClient = "nil" THEN { NilErr }
    ELSE { NilErr, Error("failed to set cache", 0) }

\* variant of AfterCacheGet: a hit is not returned
AfterCacheGet_IgnoreHit(ret) ==
    [return |-> FALSE, result |-> << >>, err |-> NilErr]

\* variant of AfterCacheGet: the error of cache.Get is returned
AfterCacheGet_SurfaceErr(ret) ==
    IF ret.err # NilErr THEN [return |-> TRUE, result |-> << >>, err |-> ret.err]
    ELSE IF ret.result # << >>
      THEN [return |-> TRUE, result |-> ret.result, err |-> NilErr]
      ELSE [return |-> FALSE, result |-> << >>, err |-> NilErr]

\* Analyze, lines 80-84: what Analyze does with the return of cache.Get
AfterCacheGet(ret) ==
    IF ret.err # NilErr THEN [return |-> FALSE, result |-> << >>, err |-> NilErr]
    ELSE IF ret.result # << >>
      THEN [return |-> TRUE, result |-> ret.result, err |-> NilErr]
      ELSE [return |-> FALSE, result |-> << >>, err |-> NilErr]

\* Analyze, lines 79-84: cache lookup
CacheGet ==
    /\ pc = "cache_get"
    /\ \E ret \in CacheGetReturns :
        /\ getRet' = ret
        /\ hit' = IF ret.err = NilErr THEN ret.result ELSE << >>
        /\ LET a == AfterCacheGet(ret) IN
            IF a.return
              THEN /\ result' = a.result
                   /\ err' = a.err
                   /\ pc' = "done"
              ELSE /\ pc' = "validate"
                   /\ UNCHANGED << result, err >>
    /\ UNCHANGED << cfgVars, httpVars, serverVars, pageVars, ctxDone, store, parsedURL, doc, linkVars,
                    setRet, invoked, fetchCanceled, fetchAnswer >>

(* ---------------------------------------------------------------------- *)
(* URL validation                                                          *)
(* ---------------------------------------------------------------------- *)
\* variant of parseAndValidateURL: the scheme is not checked
parseAndValidateURL_AnyScheme(u) ==
    IF ~u.parses THEN Error("invalid URL", 0)
    ELSE IF u.Scheme = "" \/ u.Host = "" THEN Error("invalid URL", 0)
    ELSE NilErr

\* parseAndValidateURL: the error it returns
parseAndValidateURL(u) ==
    IF ~u.parses THEN Error("invalid URL", 0)
    ELSE IF u.Scheme = "" \/ u.Host = "" THEN Error("invalid URL", 0)
    ELSE IF u.Scheme # "http" /\ u.Scheme # "https" THEN Error("invalid URL", 0)
    ELSE NilErr

\* Analyze, lines 86-90
ValidateURL ==
    /\ pc = "validate"
    /\ invoked' = invoked \cup {"validate"}
    /\ getRet' = NoReturn
    /\ LET e == parseAndValidateURL(targetURL) IN
        IF e # NilErr
          THEN /\ err' = e
               /\ result' = << >>
               /\ pc' = "done"
               /\ UNCHANGED parsedURL
          ELSE /\ parsedURL' = targetURL
               /\ pc' = "fetch"
               /\ UNCHANGED << result, err >>
    /\ UNCHANGED << cfgVars, httpVars, serverVars, pageVars, ctxDone, store, doc, linkVars, setRet,
                    fetchCanceled, fetchAnswer, hit >>

(* ---------------------------------------------------------------------- *)
(* Primary fetch                                                           *)
(* ---------------------------------------------------------------------- *)
\* fetchWebpage: a.httpClient.Get(targetURL) is issued; the request carries
\* no context
FetchBegin ==
    /\ pc = "fetch"
    /\ pc' = "fetching"
    /\ invoked' = invoked \cup {"fetch"}
    /\ UNCHANGED << cfgVars, httpVars, serverVars, pageVars, ctxDone, store, result, err, parsedURL, doc,
                    linkVars, cacheRets, fetchCanceled, fetchAnswer, hit >>

\* what fetchWebpage returns: (string, error)
Fetched(b, e) == [body |-> b, err |-> e]

\* variant of fetchWebpage: only a status of 400 or more is a failure
fetchWebpage_ClientErrorsOnly(o) ==
    IF o.err = "transport"
      THEN Fetched(<< >>, Error("failed to fetch webpage", 0))
    ELSE IF o.status >= StatusBadRequest
      THEN Fetched(<< >>, Error("webpage returned status code", o.status))
    ELSE IF o.err = "body"
      THEN Fetched(<< >>, Error("failed to read response body", 0))
    ELSE Fetched(o.body, NilErr)

\* variant of fetchWebpage: the body of a rejected response is returned
fetchWebpage_KeepsBody(o) ==
    IF o.err = "transport"
      THEN Fetched(<< >>, Error("failed to fetch webpage", 0))
    ELSE IF o.status # StatusOK
      THEN Fetched(o.body, Error("webpage returned status code", o.status))
    ELSE IF o.err = "body"
      THEN Fetched(<< >>, Error("failed to read response body", 0))
    ELSE Fetched(o.body, NilErr)

\* fetchWebpage: the body and the error it returns for an answer of the GET
fetchWebpage(o) ==
    IF o.err = "transport"
      THEN Fetched(<< >>, Error("failed to fetch webpage", 0))
    ELSE IF o.status # StatusOK
      THEN Fetched(<< >>, Error("webpage returned status code", o.status))
    ELSE IF o.err = "body"
      THEN Fetched(<< >>, Error("failed to read response body", 0))
    ELSE Fetched(o.body, NilErr)

\* the GET returns; Analyze, lines 92-96
FetchEnd ==
    /\ pc = "fetching"
    /\ \E o \in FetchOutcomes :
        /\ fetchAnswer' = o
        /\ LET r == fetchWebpage(o) IN
            /\ doc' = r.body
            /\ IF r.err # NilErr
                 THEN /\ err' = r.err
                      /\ result' = << >>
                      /\ pc' = "done"
                 ELSE /\ pc' = "parse"
                      /\ UNCHANGED << result, err >>
    /\ UNCHANGED << cfgVars, httpVars, serverVars, pageVars, ctxDone, store, parsedURL, linkVars,
                    cacheRets, invoked, fetchCanceled, hit >>

\* parseHTML: goquery.NewDocumentFromReader returns a document or an error
ParseReturns == { NilErr, Error("failed to parse HTML", 0) }

\* Analyze, lines 98-102: parseHTML
ParseHTML ==
    /\ pc = "parse"
    /\ invoked' = invoked \cup {"parse"}
    /\ \E e \in ParseReturns :
        IF e = NilErr
          THEN /\ pc' = "al_start"
               /\ outcome' = [i \in 1..Len(doc) |-> NoOutcome]
               /\ flow' = Flow(Len(doc))
               /\ UNCHANGED << result, err, doc >>
          ELSE /\ err' = e
               /\ result' = << >>
               /\ doc' = << >>
               /\ pc' = "done"
               /\ UNCHANGED << outcome, flow >>
    /\ UNCHANGED << cfgVars, httpVars, serverVars, pageVars, ctxDone, store, parsedURL, analysis,
                    externalLinks, internalLinks, idx, linksToCheck,
                    internalLinksToCheck, wg, linkChan, resultChan, workers,
                    cpc, enqueued, cacheRets, fetchCanceled, fetchAnswer,
                    hit >>

(* ---------------------------------------------------------------------- *)
(* analyzeLinks                                                            *)
(* ---------------------------------------------------------------------- *)
\* variant of ChanCap: the channels are sized by the number of workers
ChanCap_Workers == config.MaxWorkers

\* lines 307-308: capacity of linkChan and of resultChan
ChanCap == config.MaxLinks

\* a send on a buffered channel is possible
CanSend(ch) == Len(ch.buf) < ChanCap

\* variant of StartWorkers: the loop starts one goroutine too many
StartWorkers_OneMore ==
    /\ pc = "al_start"
    /\ linkChan' = MakeChan
    /\ resultChan' = MakeChan
    /\ workers' = [w \in {Worker("recv", NoRequest, FALSE)} |-> config.MaxWorkers + 1]
    /\ idx' = 1
    /\ pc' = "al_walk"
    /\ UNCHANGED << cfgVars, httpVars, serverVars, pageVars, ctxDone, store, result, err, parsedURL, doc,
                    analysis, externalLinks, internalLinks, linksToCheck,
                    internalLinksToCheck, wg, cpc, outcome, flow, enqueued,
                    cacheRets, hist >>

\* lines 305-313: make the channels, start the worker pool
StartWorkers ==
    /\ pc = "al_start"
    /\ linkChan' = MakeChan
    /\ resultChan' = MakeChan
    /\ workers' = [w \in {Worker("recv", NoRequest, FALSE)} |-> config.MaxWorkers]
    /\ idx' = 1
    /\ pc' = "al_walk"
    /\ UNCHANGED << cfgVars, httpVars, serverVars, pageVars, ctxDone, store, result, err, parsedURL, doc,
                    analysis, externalLinks, internalLinks, linksToCheck,
                    internalLinksToCheck, wg, cpc, outcome, flow, enqueued,
                    cacheRets, hist >>

\* baseURL.Parse(href).Host
ResolvedHost(base, href) == IF href.Host = "" THEN base.Host ELSE href.Host

\* variant of WalkLink: an href that fails to resolve is counted as external
WalkLink_CountsUnresolved ==
    /\ pc = "al_walk"
    /\ idx <= Len(doc)
    /\ LET href == doc[idx] IN
        IF ~href.ok
          THEN /\ analysis' = [analysis EXCEPT !.External = @ + 1]
               /\ UNCHANGED << internalLinks, externalLinks >>
          ELSE IF ResolvedHost(parsedURL, href) = parsedURL.Host
            THEN /\ analysis' = [analysis EXCEPT !.Internal = @ + 1]
                 /\ internalLinks' = Append(internalLinks, idx)
                 /\ UNCHANGED externalLinks
            ELSE /\ analysis' = [analysis EXCEPT !.External = @ + 1]
                 /\ externalLinks' = Append(externalLinks, idx)
                 /\ UNCHANGED internalLinks
    /\ idx' = idx + 1
    /\ UNCHANGED << cfgVars, httpVars, serverVars, pageVars, ctxDone, store, pc, result, err, parsedURL, doc,
                    linksToCheck, internalLinksToCheck, wg, linkChan,
                    resultChan, workers, cpc, outcome, flow, enqueued, cacheRets,
                    hist >>

\* lines 319-334: one element of doc.Find("a[href]").Each
WalkLink ==
    /\ pc = "al_walk"
    /\ idx <= Len(doc)
    /\ LET href == doc[idx] IN
        IF ~href.ok
          THEN UNCHANGED << analysis, internalLinks, externalLinks >>
          ELSE IF ResolvedHost(parsedURL, href) = parsedURL.Host
            THEN /\ analysis' = [analysis EXCEPT !.Internal = @ + 1]
                 /\ internalLinks' = Append(internalLinks, idx)
                 /\ UNCHANGED externalLinks
            ELSE /\ analysis' = [analysis EXCEPT !.External = @ + 1]
                 /\ externalLinks' = Append(externalLinks, idx)
                 /\ UNCHANGED internalLinks
    /\ idx' = idx + 1
    /\ UNCHANGED << cfgVars, httpVars, serverVars, pageVars, ctxDone, store, pc, result, err, parsedURL, doc,
                    linksToCheck, internalLinksToCheck, wg, linkChan,
                    resultChan, workers, cpc, outcome, flow, enqueued, cacheRets,
                    hist >>

\* variant of WalkDone: dispatch begins before the walk has ended
WalkDone_Early ==
    /\ pc = "al_walk"
    /\ linksToCheck' = 0
    /\ idx' = 1
    /\ pc' = "al_ext"
    /\ UNCHANGED << cfgVars, httpVars, serverVars, pageVars, ctxDone, store, result, err, parsedURL, doc,
                    analysis, externalLinks, internalLinks,
                    internalLinksToCheck, wg, linkChan, resultChan, workers,
                    cpc, outcome, flow, enqueued, cacheRets, hist >>

\* lines 336-338: the walk is over
WalkDone ==
    /\ pc = "al_walk"
    /\ idx > Len(doc)
    /\ linksToCheck' = 0
    /\ idx' = 1
    /\ pc' = "al_ext"
    /\ UNCHANGED << cfgVars, httpVars, serverVars, pageVars, ctxDone, store, result, err, parsedURL, doc,
                    analysis, externalLinks, internalLinks,
                    internalLinksToCheck, wg, linkChan, resultChan, workers,
                    cpc, outcome, flow, enqueued, cacheRets, hist >>

\* variant of BudgetReached: off by one
BudgetReached_OffByOne(n, max) == n > max

\* line 342: the budget is used up
BudgetReached(n, max) == n >= max

\* lines 341-348: the external loop is at a link it will enqueue
ExternalPending ==
    idx <= Len(externalLinks) /\ ~BudgetReached(linksToCheck, config.MaxLinks)

\* lines 341-348: wg.Add(1); linkChan <- linkCheckRequest{link, false};
\* linksToCheck++
ExternalSend ==
    /\ pc = "al_ext"
    /\ ExternalPending
    /\ CanSend(linkChan)
    /\ wg' = wg + 1
    /\ LET req == linkCheckRequest(externalLinks[idx], FALSE) IN
        /\ linkChan' = [linkChan EXCEPT !.buf = Append(@, req)]
        /\ enqueued' = Append(enqueued, req)
    /\ linksToCheck' = linksToCheck + 1
    /\ idx' = idx + 1
    /\ UNCHANGED << cfgVars, httpVars, serverVars, pageVars, ctxDone, store, pc, result, err, parsedURL, doc,
                    analysis, externalLinks, internalLinks,
                    internalLinksToCheck, resultChan, workers, cpc, outcome, flow,
                    cacheRets, hist >>

\* variant of InternalLinksToCheck: the remaining capacity is ignored
InternalLinksToCheck_Uncapped(n, remainingCapacity) == n

\* lines 351-355: the number of internal links to check
InternalLinksToCheck(n, remainingCapacity) ==
    IF n > remainingCapacity THEN remainingCapacity ELSE n

\* lines 341-344 and 351-355: the external loop ends
ExternalDone ==
    /\ pc = "al_ext"
    /\ ~ExternalPending
    /\ internalLinksToCheck' =
          InternalLinksToCheck(Len(internalLinks), config.MaxLinks - linksToCheck)
    /\ idx' = 0
    /\ pc' = "al_int"
    /\ UNCHANGED << cfgVars, httpVars, serverVars, pageVars, ctxDone, store, result, err, parsedURL, doc,
                    analysis, externalLinks, internalLinks, linksToCheck, wg,
                    linkChan, resultChan, workers, cpc, outcome, flow, enqueued,
                    cacheRets, hist >>

\* lines 357-361: wg.Add(1); linkChan <- linkCheckRequest{internalLinks[i],
\* true}; linksToCheck++
InternalSend ==
    /\ pc = "al_int"
    /\ idx < internalLinksToCheck
    /\ CanSend(linkChan)
    /\ wg' = wg + 1
    /\ LET req == linkCheckRequest(internalLinks[idx + 1], TRUE) IN
        /\ linkChan' = [linkChan EXCEPT !.buf = Append(@, req)]
        /\ enqueued' = Append(enqueued, req)
    /\ linksToCheck' = linksToCheck + 1
    /\ idx' = idx + 1
    /\ UNCHANGED << cfgVars, httpVars, serverVars, pageVars, ctxDone, store, pc, result, err, parsedURL, doc,
                    analysis, externalLinks, internalLinks,
                    internalLinksToCheck, resultChan, workers, cpc, outcome, flow,
                    cacheRets, hist >>

\* variant of CloseLinkChan: the task queue is left open
CloseLinkChan_Forgotten ==
    /\ pc = "al_int"
    /\ ~(idx < internalLinksToCheck)
    /\ cpc' = "wait"
    /\ pc' = "al_count"
    /\ UNCHANGED << cfgVars, httpVars, serverVars, pageVars, ctxDone, store, result, err, parsedURL, doc,
                    analysis, externalLinks, internalLinks, idx,
                    linksToCheck, internalLinksToCheck, wg, linkChan, resultChan,
                    workers, outcome, flow, enqueued, cacheRets, hist >>

\* lines 357 and 364-368: the internal loop ends; close(linkChan);
\* go func() { wg.Wait(); close(resultChan) }()
CloseLinkChan ==
    /\ pc = "al_int"
    /\ ~(idx < internalLinksToCheck)
    /\ linkChan' = [linkChan EXCEPT !.closed = TRUE]
    /\ cpc' = "wait"
    /\ pc' = "al_count"
    /\ UNCHANGED << cfgVars, httpVars, serverVars, pageVars, ctxDone, store, result, err, parsedURL, doc,
                    analysis, externalLinks, internalLinks, idx,
                    linksToCheck, internalLinksToCheck, wg, resultChan,
                    workers, outcome, flow, enqueued, cacheRets, hist >>

\* variant of WaitReturn: the barrier does not wait for the counter
WaitReturn_NoBarrier ==
    /\ cpc = "wait"
    /\ cpc' = "close"
    /\ UNCHANGED << cfgVars, httpVars, serverVars, pageVars, ctxDone, store, pc, result, err, parsedURL, doc,
                    analysis, externalLinks, internalLinks, idx,
                    linksToCheck, internalLinksToCheck, wg, linkChan,
                    resultChan, workers, outcome, flow, enqueued, cacheRets, hist >>

\* line 366: wg.Wait() returns
WaitReturn ==
    /\ cpc = "wait"
    /\ wg = 0
    /\ cpc' = "close"
    /\ UNCHANGED << cfgVars, httpVars, serverVars, pageVars, ctxDone, store, pc, result, err, parsedURL, doc,
                    analysis, externalLinks, internalLinks, idx,
                    linksToCheck, internalLinksToCheck, wg, linkChan,
                    resultChan, workers, outcome, flow, enqueued, cacheRets, hist >>

\* line 367: close(resultChan)
CloseResultChan ==
    /\ cpc = "close"
    /\ resultChan' = [resultChan EXCEPT !.closed = TRUE]
    /\ cpc' = "exit"
    /\ UNCHANGED << cfgVars, httpVars, serverVars, pageVars, ctxDone, store, pc, result, err, parsedURL, doc,
                    analysis, externalLinks, internalLinks, idx,
                    linksToCheck, internalLinksToCheck, wg, linkChan,
                    workers, outcome, flow, enqueued, cacheRets, hist >>

\* variant of Tally: the accessible results are counted
Tally_Accessible(a, accessible) ==
    IF accessible THEN [a EXCEPT !.Inaccessible = @ + 1] ELSE a

\* lines 372-374: if !accessible { analysis.Inaccessible++ }
Tally(a, accessible) ==
    IF ~accessible THEN [a EXCEPT !.Inaccessible = @ + 1] ELSE a

\* lines 371-375: one iteration of for accessible := range resultChan
CountResult ==
    /\ pc = "al_count"
    /\ resultChan.buf # << >>
    /\ analysis' = Tally(analysis, Head(resultChan.buf))
    /\ resultChan' = [resultChan EXCEPT !.buf = Tail(@)]
    /\ flow' = [flow EXCEPT !.counted = @ + 1]
    /\ UNCHANGED << cfgVars, httpVars, serverVars, pageVars, ctxDone, store, pc, result, err, parsedURL, doc,
                    externalLinks, internalLinks, idx, linksToCheck,
                    internalLinksToCheck, wg, linkChan, workers, cpc,
                    outcome, enqueued, cacheRets, hist >>

\* line 377 and performWebpageAnalysis: the range loop ends, analyzeLinks
\* returns analysis, which becomes result.Links
ReturnAnalysis ==
    /\ pc = "al_count"
    /\ resultChan.buf = << >>
    /\ resultChan.closed
    /\ result' = << AnalyzeResponse(targetURL.raw, analysis) >>
    /\ pc' = "cache_set"
    /\ UNCHANGED << cfgVars, httpVars, serverVars, pageVars, ctxDone, store, err, parsedURL, doc, linkVars,
                    cacheRets, hist >>

(* ---------------------------------------------------------------------- *)
(* linkWorker                                                              *)
(* ---------------------------------------------------------------------- *)
\* the pool after one goroutine in local state w has moved to local state v
Moved(w, v) == (workers (-) SetToBag({w})) (+) SetToBag({v})

\* variant of WorkerRecv: the request is read but stays in the channel
WorkerRecv_Peek(w) ==
    /\ w.pc = "recv"
    /\ linkChan.buf # << >>
    /\ workers' = Moved(w, Worker("probe", Head(linkChan.buf), FALSE))
    /\ invoked' = invoked \cup {"probe"}
    /\ flow' = [flow EXCEPT !.taken[Head(linkChan.buf).url] = @ + 1]
    /\ UNCHANGED << cfgVars, httpVars, serverVars, pageVars, ctxDone, store, pc, result, err, parsedURL, doc,
                    analysis, externalLinks, internalLinks, idx, linksToCheck,
                    internalLinksToCheck, wg, linkChan, resultChan, cpc, outcome,
                    enqueued, cacheRets, fetchCanceled, fetchAnswer, hit >>

\* line 382: for linkReq := range links, a request is received
WorkerRecv(w) ==
    /\ w.pc = "recv"
    /\ linkChan.buf # << >>
    /\ workers' = Moved(w, Worker("probe", Head(linkChan.buf), FALSE))
    /\ linkChan' = [linkChan EXCEPT !.buf = Tail(@)]
    /\ invoked' = invoked \cup {"probe"}
    /\ flow' = [flow EXCEPT !.taken[Head(linkChan.buf).url] = @ + 1]
    /\ UNCHANGED << cfgVars, httpVars, serverVars, pageVars, ctxDone, store, pc, result, err, parsedURL, doc,
                    analysis, externalLinks, internalLinks, idx, linksToCheck,
                    internalLinksToCheck, wg, resultChan, cpc, outcome,
                    enqueued, cacheRets, fetchCanceled, fetchAnswer, hit >>

\* line 382: the channel is closed and drained, the worker returns
WorkerExit(w) ==
    /\ w.pc = "recv"
    /\ linkChan.buf = << >>
    /\ linkChan.closed
    /\ workers' = Moved(w, Worker("exit", NoRequest, FALSE))
    /\ UNCHANGED << cfgVars, httpVars, serverVars, pageVars, ctxDone, store, pc, result, err, parsedURL, doc,
                    analysis, externalLinks, internalLinks, idx, linksToCheck,
                    internalLinksToCheck, wg, linkChan, resultChan, cpc,
                    outcome, flow, enqueued, cacheRets, hist >>

\* variant of checkLinkWithTimeout: a failed client.Do counts as accessible
checkLinkWithTimeout_IgnoreErr(o) ==
    IF o.err = "request" THEN FALSE
    ELSE IF o.err # "" THEN TRUE
    ELSE o.status < StatusBadRequest

\* variant of checkLinkWithTimeout: a status of exactly 400 counts as accessible
checkLinkWithTimeout_Inclusive(o) ==
    IF o.err = "request" THEN FALSE
    ELSE IF o.err # "" THEN FALSE
    ELSE o.status <= StatusBadRequest

\* checkLinkWithTimeout: the boolean it returns for an answer of the probe
checkLinkWithTimeout(o) ==
    IF o.err = "request" THEN FALSE
    ELSE IF o.err # "" THEN FALSE
    ELSE o.status < StatusBadRequest

\* the answers a probe can get: with the context cancelled, client.Do fails
ProbeAnswers ==
    IF ctxDone THEN { Canceled, [err |-> "request", status |-> 0] }
    ELSE ProbeOutcomes

\* line 384: the probe returns
WorkerProbe(w) ==
    /\ w.pc = "probe"
    /\ \E o \in ProbeAnswers :
        LET accessible == checkLinkWithTimeout(o) IN
        /\ workers' = Moved(w, Worker("send", w.linkReq, accessible))
        /\ outcome' = [outcome EXCEPT ![w.linkReq.url] =
                          [returned |-> IF accessible THEN "accessible"
                                                      ELSE "inaccessible",
                           failed |-> ProbeFailed(o)]]
    /\ flow' = [flow EXCEPT !.probed[w.linkReq.url] = @ + 1]
    /\ UNCHANGED << cfgVars, httpVars, serverVars, pageVars, ctxDone, store, pc, result, err, parsedURL, doc,
                    analysis, externalLinks, internalLinks, idx, linksToCheck,
                    internalLinksToCheck, wg, linkChan, resultChan, cpc,
                    enqueued, cacheRets, hist >>

\* line 386: results <- accessible
WorkerSend(w) ==
    /\ w.pc = "send"
    /\ CanSend(resultChan)
    /\ resultChan' = [resultChan EXCEPT !.buf = Append(@, w.accessible)]
    /\ workers' = Moved(w, Worker("wgdone", w.linkReq, w.accessible))
    /\ flow' = [flow EXCEPT !.sent = @ + 1]
    /\ UNCHANGED << cfgVars, httpVars, serverVars, pageVars, ctxDone, store, pc, result, err, parsedURL, doc,
                    analysis, externalLinks, internalLinks, idx, linksToCheck,
                    internalLinksToCheck, wg, linkChan, cpc, outcome,
                    enqueued, cacheRets, hist >>

\* variant of wgDone: the counter is not decremented
wgDone_Forgotten(n) == n

\* variant of wgDone: the counter is decremented twice
wgDone_Twice(n) == n - 2

\* line 387: wg.Done()
wgDone(n) == n - 1

\* line 387, and the end of the loop body
WorkerDone(w) ==
    /\ w.pc = "wgdone"
    /\ wg' = wgDone(wg)
    /\ workers' = Moved(w, Worker("recv", NoRequest, FALSE))
    /\ UNCHANGED << cfgVars, httpVars, serverVars, pageVars, ctxDone, store, pc, result, err, parsedURL, doc,
                    analysis, externalLinks, internalLinks, idx, linksToCheck,
                    internalLinksToCheck, linkChan, resultChan, cpc, outcome, flow,
                    enqueued, cacheRets, hist >>

(* ---------------------------------------------------------------------- *)
(* Cache write and return                                                  *)
(* ---------------------------------------------------------------------- *)
\* variant of AfterCacheSet: the error of cache.Set is returned
AfterCacheSet_SurfaceErr(res, e) ==
    IF e # NilErr THEN [result |-> << >>, err |-> e]
    ELSE [result |-> res, err |-> NilErr]

\* Analyze, lines 108-112: what Analyze returns after cache.Set
AfterCacheSet(res, e) == [result |-> res, err |-> NilErr]

\* Analyze, lines 107-112
CacheSet ==
    /\ pc = "cache_set"
    /\ invoked' = invoked \cup {"set"}
    /\ \E e \in CacheSetReturns :
        /\ setRet' = e
        /\ store' = IF e = NilErr /\ cacheClient # "nil" THEN result ELSE store
        /\ result' = AfterCacheSet(result, e).result
        /\ err' = AfterCacheSet(result, e).err
    /\ pc' = "done"
    /\ UNCHANGED << cfgVars, httpVars, serverVars, pageVars, ctxDone, parsedURL, doc, linkVars, getRet,
                    fetchCanceled, fetchAnswer, hit >>

(* ---------------------------------------------------------------------- *)
(* The caller cancels the context                                          *)
(* ---------------------------------------------------------------------- *)
Cancel ==
    /\ pc # "done"
    /\ ~ctxDone
    /\ ctxDone' = TRUE
    /\ fetchCanceled' = (pc = "fetching")
    /\ UNCHANGED << cfgVars, httpVars, serverVars, pageVars, store, pc, result, err, parsedURL, doc,
                    linkVars, cacheRets, invoked, fetchAnswer, hit >>

(* ---------------------------------------------------------------------- *)
(* Specifications                                                          *)
(* ---------------------------------------------------------------------- *)
Next ==
    \/ CacheGet \/ ValidateURL \/ FetchBegin \/ FetchEnd \/ ParseHTML
    \/ StartWorkers \/ WalkLink \/ WalkDone \/ ExternalSend \/ ExternalDone
    \/ InternalSend \/ CloseLinkChan \/ CountResult \/ ReturnAnalysis
    \/ CacheSet
    \/ WaitReturn \/ CloseResultChan
    \/ \E w \in BagToSet(workers) :
         \/ WorkerRecv(w) \/ WorkerExit(w) \/ WorkerProbe(w) \/ WorkerSend(w)
         \/ WorkerDone(w)
    \/ Cancel

\* One call of Analyze.
Spec == Init /\ [][Next]_vars

\* The entry of analyzeLinks, as Analyze reaches it (and as the tests call
\* it): cache miss on a no-op cache, valid URL, page fetched and parsed.
LinkInit ==
    /\ targetURL = [raw |-> "http://example.com", parses |-> TRUE,
                    Scheme |-> "http", Host |-> "example.com"]
    /\ ctxDone \in BOOLEAN
    /\ config \in [MaxLinks : 1..MaxLinksBound, MaxWorkers : 1..MaxWorkersBound]
    /\ cacheClient = "nil"
    /\ store = << >>
    /\ pc = "al_start"
    /\ result = << >>
    /\ err = NilErr
    /\ parsedURL = targetURL
    /\ doc \in Docs
    /\ LinkLocalsInit
    /\ getRet = NoReturn
    /\ setRet = NilErr
    /\ outcome = [i \in 1..Len(doc) |-> NoOutcome]
    /\ flow = Flow(Len(doc))
    /\ enqueued = << >>
    /\ invoked = {"validate", "fetch", "parse"}
    /\ fetchCanceled = FALSE
    /\ fetchAnswer = [err |-> "", status |-> StatusOK, body |-> doc]
    /\ hit = << >>
    /\ NoTraffic
    /\ do = << >>
    /\ NoPage

MainLinkStep ==
    \/ StartWorkers \/ WalkLink \/ WalkDone \/ ExternalSend \/ ExternalDone
    \/ InternalSend \/ CloseLinkChan \/ CountResult \/ ReturnAnalysis

WorkerStep(w) ==
    \/ WorkerRecv(w) \/ WorkerExit(w) \/ WorkerProbe(w) \/ WorkerSend(w)
    \/ WorkerDone(w)

CloserStep == WaitReturn \/ CloseResultChan

LinkNext ==
    \/ StartWorkers \/ WalkLink \/ WalkDone \/ ExternalSend \/ ExternalDone
    \/ InternalSend \/ CloseLinkChan \/ CountResult \/ ReturnAnalysis
    \/ WaitReturn \/ CloseResultChan
    \/ \E w \in BagToSet(workers) :
         \/ WorkerRecv(w) \/ WorkerExit(w) \/ WorkerProbe(w) \/ WorkerSend(w)
         \/ WorkerDone(w)
    \/ Cancel

\* One call of analyzeLinks under fair scheduling: a goroutine that can run
\* does run, and every probe returns.  The caller need never cancel.
LinkFairSpec ==
    /\ LinkInit
    /\ [][LinkNext]_vars
    /\ WF_vars(MainLinkStep)
    /\ WF_vars(CloserStep)
    /\ WF_vars(\E w \in BagToSet(workers) : WorkerStep(w))

(* ---------------------------------------------------------------------- *)
(* HTML version detection                                                  *)
(* ---------------------------------------------------------------------- *)
HTMLVersion5 == "HTML5"
HTMLVersionXHTML11 == "XHTML 1.1"
HTMLVersionXHTML10 == "XHTML 1.0"
HTMLVersionXHTML10Strict == "XHTML 1.0 Strict"
HTMLVersionXHTML10Transitional == "XHTML 1.0 Transitional"
HTMLVersionXHTML10Frameset == "XHTML 1.0 Frameset"
HTMLVersionHTML401 == "HTML 4.01"
HTMLVersionHTML401Strict == "HTML 4.01 Strict"
HTMLVersionHTML401Transitional == "HTML 4.01 Transitional"
HTMLVersionHTML401Frameset == "HTML 4.01 Frameset"
HTMLVersionHTML40 == "HTML 4.0"
HTMLVersionHTML32 == "HTML 3.2"
HTMLVersionHTML20 == "HTML 2.0"
HTMLVersionXHTMLGeneric == "XHTML"
HTMLVersionHTMLGeneric == "HTML"
HTMLVersionUnknown == "Unknown DOCTYPE"

DOCTYPEKeywordHTML == "HTML"
DOCTYPEKeywordXHTML == "XHTML"
DOCTYPEKeywordStrict == "STRICT"
DOCTYPEKeywordTransitional == "TRANSITIONAL"
DOCTYPEKeywordFrameset == "FRAMESET"
DOCTYPEKeywordHTML401 == "HTML 4.01"
DOCTYPEKeywordHTML40 == "HTML 4.0"
DOCTYPEKeywordHTML32 == "HTML 3.2"
DOCTYPEKeywordHTML20 == "HTML 2.0"
DOCTYPEKeywordXHTML11 == "XHTML 1.1"
DOCTYPEKeywordXHTML10 == "XHTML 1.0"

\* What precedes the DOCTYPE declaration in a markup: white space, an XML
\* declaration, a comment on one line, a comment that spans lines.
LeadItems == {"ws", "xml", "comment", "comment-lines"}

\* Phrases a DOCTYPE declaration is made of, as written in the markup.
DoctypeWords ==
    {"html", "XHTML 1.1", "XHTML 1.0", "XHTML", "HTML 4.01", "HTML 4.0",
     "HTML 3.2", "HTML 2.0", "strict", "TRANSITIONAL", "FRAMESET",
     "something-else"}

\* Raw markup: the items before the first "<!DOCTYPE" or element, then the
\* declaration "<!DOCTYPE w1 w2 ...>" (its phrases) if there is one.
Markups ==
    { [lead |-> l, doctype |-> d] :
        l \in UNION { [1..n -> LeadItems] : n \in 0..MaxLead },
        d \in {<< >>} \cup
              { << w >> : w \in { ws \in SUBSET DoctypeWords :
                                    Cardinality(ws) <= MaxWords } } }

\* strings.ToUpper on a phrase
ToUpper(w) ==
    CASE w = "html" -> "HTML"
      [] w = "strict" -> "STRICT"
      [] w = "something-else" -> "SOMETHING-ELSE"
      [] OTHER -> w

\* the keywords of the constants that are substrings of an upper-case phrase
KeywordsIn(w) ==
    CASE w = "HTML" -> {"HTML"}
      [] w = "XHTML" -> {"XHTML", "HTML"}
      [] w = "XHTML 1.1" -> {"XHTML 1.1", "XHTML", "HTML"}
      [] w = "XHTML 1.0" -> {"XHTML 1.0", "XHTML", "HTML"}
      [] w = "HTML 4.01" -> {"HTML 4.01", "HTML 4.0", "HTML"}
      [] w = "HTML 4.0" -> {"HTML 4.0", "HTML"}
      [] w = "HTML 3.2" -> {"HTML 3.2", "HTML"}
      [] w = "HTML 2.0" -> {"HTML 2.0", "HTML"}
      [] w = "STRICT" -> {"STRICT"}
      [] w = "TRANSITIONAL" -> {"TRANSITIONAL"}
      [] w = "FRAMESET" -> {"FRAMESET"}
      [] OTHER -> {}

\* the empty string FindString returns when nothing matches
NoDoctype == [match |-> FALSE, words |-> {}]

\* strings.Contains(doctype, keyword)
Contains(doctype, keyword) ==
    \E w \in doctype.words : keyword \in KeywordsIn(w)

\* white space at the start, which TrimSpace and every "^\s*" consume
RECURSIVE DropSpace(_)
DropSpace(l) ==
    IF l # << >> /\ Head(l) = "ws" THEN DropSpace(Tail(l)) ELSE l

\* ReplaceAllString of a pattern "^\s*<item>\s*" by ""
StripLeading(l, item) ==
    IF DropSpace(l) # << >> /\ Head(DropSpace(l)) = item
      THEN DropSpace(Tail(DropSpace(l)))
      ELSE l

\* extractDOCTYPE: the upper-cased declaration at the start of the markup
\* once white space, one XML declaration and one comment on one line are
\* removed; "." does not match a line break, so a comment that spans lines
\* stays
extractDOCTYPE(content) ==
    LET cleanedHTML ==
          StripLeading(StripLeading(DropSpace(content.lead), "xml"), "comment")
    IN  IF DropSpace(cleanedHTML) = << >> /\ content.doctype # << >>
          THEN [match |-> TRUE,
                words |-> { ToUpper(w) : w \in content.doctype[1] }]
          ELSE NoDoctype

\* RegexHTML5DOCTYPE: "<!DOCTYPE HTML>" and nothing else
MatchesHTML5(doctype) == doctype.match /\ doctype.words = {"HTML"}

\* variant of checkHTMLVersionWithVariants: TRANSITIONAL is tested first
checkHTMLVersionWithVariants_TransitionalFirst(doctype, keyword, baseVersion, strictVersion, transitionalVersion, framesetVersion) ==
    IF ~Contains(doctype, keyword) THEN ""
    ELSE IF transitionalVersion # ""
            /\ Contains(doctype, DOCTYPEKeywordTransitional)
      THEN transitionalVersion
    ELSE IF strictVersion # "" /\ Contains(doctype, DOCTYPEKeywordStrict)
      THEN strictVersion
    ELSE IF framesetVersion # "" /\ Contains(doctype, DOCTYPEKeywordFrameset)
      THEN framesetVersion
    ELSE baseVersion

checkHTMLVersionWithVariants(doctype, keyword, baseVersion, strictVersion, transitionalVersion, framesetVersion) ==
    IF ~Contains(doctype, keyword) THEN ""
    ELSE IF strictVersion # "" /\ Contains(doctype, DOCTYPEKeywordStrict)
      THEN strictVersion
    ELSE IF transitionalVersion # ""
            /\ Contains(doctype, DOCTYPEKeywordTransitional)
      THEN transitionalVersion
    ELSE IF framesetVersion # "" /\ Contains(doctype, DOCTYPEKeywordFrameset)
      THEN framesetVersion
    ELSE baseVersion

\* the map literal of lines 235-239
simpleVersions ==
    [k \in {DOCTYPEKeywordHTML40, DOCTYPEKeywordHTML32, DOCTYPEKeywordHTML20} |->
        CASE k = DOCTYPEKeywordHTML40 -> HTMLVersionHTML40
          [] k = DOCTYPEKeywordHTML32 -> HTMLVersionHTML32
          [] k = DOCTYPEKeywordHTML20 -> HTMLVersionHTML20]

\* the orders in which a range over simpleVersions can visit its keys: the
\* language leaves the iteration order of a map unspecified
RangeOrders ==
    { o \in [1..3 -> DOMAIN simpleVersions] :
        \A i, j \in 1..3 : i # j => o[i] # o[j] }

\* lines 241-245: the first keyword in iteration order the doctype contains
RECURSIVE rangeSimpleVersions(_, _)
rangeSimpleVersions(doctype, order) ==
    IF order = << >> THEN ""
    ELSE IF Contains(doctype, Head(order)) THEN simpleVersions[Head(order)]
    ELSE rangeSimpleVersions(doctype, Tail(order))

\* detectHTMLVersion, for one iteration order of the map
detectHTMLVersion(content, order) ==
    LET doctype == extractDOCTYPE(content)
        xhtml11 == checkHTMLVersionWithVariants(doctype, DOCTYPEKeywordXHTML11,
                       HTMLVersionXHTML11, "", "", "")
        xhtml10 == checkHTMLVersionWithVariants(doctype, DOCTYPEKeywordXHTML10,
                       HTMLVersionXHTML10, HTMLVersionXHTML10Strict,
                       HTMLVersionXHTML10Transitional, HTMLVersionXHTML10Frameset)
        html401 == checkHTMLVersionWithVariants(doctype, DOCTYPEKeywordHTML401,
                       HTMLVersionHTML401, HTMLVersionHTML401Strict,
                       HTMLVersionHTML401Transitional, HTMLVersionHTML401Frameset)
        simple == rangeSimpleVersions(doctype, order)
    IN  IF doctype = NoDoctype THEN HTMLVersion5
        ELSE IF MatchesHTML5(doctype) THEN HTMLVersion5
        ELSE IF xhtml11 # "" THEN xhtml11
        ELSE IF xhtml10 # "" THEN xhtml10
        ELSE IF html401 # "" THEN html401
        ELSE IF simple # "" THEN simple
        ELSE IF Contains(doctype, DOCTYPEKeywordXHTML) THEN HTMLVersionXHTMLGeneric
        ELSE IF Contains(doctype, DOCTYPEKeywordHTML) THEN HTMLVersionHTMLGeneric
        ELSE HTMLVersionUnknown

\* performWebpageAnalysis is entered: cache miss on a no-op cache, valid URL,
\* page fetched and parsed; nothing of the analysis has run
AnalysisEntry ==
    /\ targetURL = [raw |-> "http://example.com", parses |-> TRUE,
                    Scheme |-> "http", Host |-> "example.com"]
    /\ ctxDone = FALSE
    /\ config = [MaxLinks |-> 1, MaxWorkers |-> 1]
    /\ cacheClient = "nil"
    /\ store = << >>
    /\ pc = "al_start"
    /\ result = << >>
    /\ err = NilErr
    /\ parsedURL = targetURL
    /\ doc = << >>
    /\ LinkLocalsInit
    /\ getRet = NoReturn
    /\ setRet = NilErr
    /\ outcome = << >>
    /\ flow = NoFlow
    /\ enqueued = << >>
    /\ invoked = {"validate", "fetch", "parse"}
    /\ fetchCanceled = FALSE
    /\ fetchAnswer = [err |-> "", status |-> StatusOK, body |-> doc]
    /\ hit = << >>

analysisVars ==
    << cfgVars, ctxDone, store, pc, result, err, parsedURL, doc, linkVars,
       cacheRets, hist >>

VersionInit ==
    /\ AnalysisEntry
    /\ NoTraffic
    /\ do = << >>
    /\ htmlContent \in Markups
    /\ HTMLVersion = << >>
    /\ headingDoc = << >>
    /\ Headings = << >>
    /\ formDoc = [forms |-> << >>, tags |-> {}]
    /\ HasLoginForm = << >>

\* line 173: result.HTMLVersion = a.detectHTMLVersion(htmlContent)
DetectHTMLVersion ==
    /\ Len(HTMLVersion) < MaxEvaluations
    /\ \E order \in RangeOrders :
        HTMLVersion' = Append(HTMLVersion, detectHTMLVersion(htmlContent, order))
    /\ UNCHANGED << analysisVars, httpVars, serverVars, htmlContent, headingDoc, Headings, formDoc,
                    HasLoginForm >>

\* detectHTMLVersion evaluated on the same markup, up to MaxEvaluations times
VersionSpec == VersionInit /\ [][DetectHTMLVersion]_vars

(* ---------------------------------------------------------------------- *)
(* Headings                                                                *)
(* ---------------------------------------------------------------------- *)
HeadingTags == {"h1", "h2", "h3", "h4", "h5", "h6"}

\* the elements of a parsed document, in document order, by tag name
HeadingDocs ==
    UNION { [1..n -> HeadingTags \cup {"p", "title"}] : n \in 0..MaxElements }

\* fmt.Sprintf("h%d", i)
Selector(i) ==
    CASE i = 1 -> "h1" [] i = 2 -> "h2" [] i = 3 -> "h3"
      [] i = 4 -> "h4" [] i = 5 -> "h5" [] i = 6 -> "h6"

\* doc.Find(selector): the elements with that tag name
Find(d, selector) == SelectSeq(d, LAMBDA e : e = selector)

\* the loop of lines 199-202, from i up to last, on the map built so far
RECURSIVE headingsLoop(_, _, _, _)
headingsLoop(d, i, last, headings) ==
    IF i > last THEN headings
    ELSE headingsLoop(d, i + 1, last,
             (Selector(i) :> Len(Find(d, Selector(i)))) @@ headings)

\* variant of countHeadings: the loop stops before h6
countHeadings_FiveLevels(d) == headingsLoop(d, 1, 5, << >>)

\* countHeadings: the map from "h1".."h6" to the number of such elements
countHeadings(d) == headingsLoop(d, 1, 6, << >>)

HeadingInit ==
    /\ AnalysisEntry
    /\ NoTraffic
    /\ do = << >>
    /\ htmlContent = << >>
    /\ HTMLVersion = << >>
    /\ headingDoc \in HeadingDocs
    /\ Headings = << >>
    /\ formDoc = [forms |-> << >>, tags |-> {}]
    /\ HasLoginForm = << >>

\* line 179: result.Headings = a.countHeadings(doc)
CountHeadings ==
    /\ Headings = << >>
    /\ Headings' = << countHeadings(headingDoc) >>
    /\ UNCHANGED << analysisVars, httpVars, serverVars, htmlContent, HTMLVersion, headingDoc,
                    formDoc, HasLoginForm >>

\* countHeadings on every document of HeadingDocs
HeadingSpec == HeadingInit /\ [][CountHeadings]_vars

(* ---------------------------------------------------------------------- *)
(* Login form detection                                                    *)
(* ---------------------------------------------------------------------- *)
\* Elements inside a form, by what the selectors and filters read: tag name,
\* type attribute, and the text (of the element, or for a checkbox of its
\* parent and label).
Element(tag, type, text) == [tag |-> tag, type |-> type, text |-> text]
PasswordInput == Element("input", "password", "")
TextInput == Element("input", "text", "")
EmailInput == Element("input", "email", "")
LoginButton == Element("button", "submit", "Login")
SendButton == Element("button", "submit", "Send")
GoogleSubmit == Element("button", "submit", "Sign in with Google")
RememberMe == Element("input", "checkbox", "Remember me")
ForgotLink == Element("a", "", "Forgot password?")
GoogleButton == Element("button", "", "Sign in with Google")

FormElements ==
    {PasswordInput, TextInput, EmailInput, LoginButton, SendButton, GoogleSubmit,
     RememberMe, ForgotLink, GoogleButton}

\* values of a form's action attribute
FormActions == {"/login", "/search"}

\* meta and link elements of the page: tag, name (or rel) and content
Tag(tag, name, content) == [tag |-> tag, name |-> name, content |-> content]
PageTags ==
    {Tag("meta", "auth-provider", "oauth2"),
     Tag("meta", "google-signin-client_id", "auth.example"),
     Tag("meta", "signature", "abc"),
     Tag("meta", "description", "authentic food")}

\* a form without attributes or content
EmptyForm == [action |-> << >>, els |-> {}]

\* the phrases the code looks for that strings.ToLower(text) contains
PhrasesIn(text) ==
    CASE text = "Login" -> {"login"}
      [] text = "Sign in with Google" -> {"sign in", "sign in with google"}
      [] text = "Remember me" -> {"remember me"}
      [] text = "Forgot password?" -> {"forgot", "password"}
      [] text = "/login" -> {"login"}
      [] text = "oauth2" -> {"auth"}
      [] text = "auth.example" -> {"auth"}
      [] text = "authentic food" -> {"auth"}
      [] text = "auth-provider" -> {"auth"}
      [] text = "google-signin-client_id" -> {"sign"}
      [] text = "signature" -> {"sign"}
      [] OTHER -> {}

\* strings.Contains(strings.ToLower(text), phrase) for one of the phrases
ContainsAny(text, phrases) == PhrasesIn(text) \cap phrases # {}

\* lines 437-514: the score of one form
formScore(form) ==
    LET actionScore ==
          IF form.action # << >>
             /\ ContainsAny(form.action[1], {"login", "signin", "auth"})
            THEN 3 ELSE 0
        passwordFields ==
          { e \in form.els : e.tag = "input" /\ e.type = "password" }
        userFields ==
          { e \in form.els : e.tag = "input" /\ e.type \in {"text", "email"} }
        submits ==
          { e \in form.els : e.tag \in {"button", "input"} /\ e.type = "submit" }
        loginSubmits ==
          { e \in submits : ContainsAny(e.text, {"login", "sign in", "log in"}) }
        rememberMe ==
          { e \in form.els : /\ e.tag = "input" /\ e.type = "checkbox"
                             /\ ContainsAny(e.text, {"remember me", "keep me signed in"}) }
        forgotPwd ==
          { e \in form.els : /\ e.tag = "a"
                             /\ "forgot" \in PhrasesIn(e.text)
                             /\ "password" \in PhrasesIn(e.text) }
        oauthButtons ==
          { e \in form.els : /\ e.tag \in {"button", "a"}
                             /\ ContainsAny(e.text, {"sign in with google",
                                                      "login with google"}) }
    IN  actionScore
        + (IF passwordFields # {} THEN 4 ELSE 0)
        + (IF userFields # {} THEN 3 ELSE 0)
        + 2 * Cardinality(loginSubmits)
        + (IF rememberMe # {} THEN 2 ELSE 0)
        + (IF forgotPwd # {} THEN 2 ELSE 0)
        + (IF oauthButtons # {} THEN 2 ELSE 0)

\* variant of eachForm: the scores of the forms are added
RECURSIVE eachForm_Sums(_, _)
eachForm_Sums(forms, score) ==
    IF forms = << >> THEN score
    ELSE eachForm_Sums(Tail(forms), score + formScore(Head(forms)))

\* variant of eachForm: the score of the last form is kept
RECURSIVE eachForm_LastWins(_, _)
eachForm_LastWins(forms, score) ==
    IF forms = << >> THEN score
    ELSE eachForm_LastWins(Tail(forms), formScore(Head(forms)))

\* doc.Find("form").Each, lines 436-520: the highest form score so far
RECURSIVE eachForm(_, _)
eachForm(forms, score) ==
    IF forms = << >> THEN score
    ELSE eachForm(Tail(forms),
                  IF formScore(Head(forms)) > score THEN formScore(Head(forms))
                                                    ELSE score)

\* lines 523-527: the tags the selector finds whose content mentions "auth"
authTags(page) ==
    { t \in page.tags :
        /\ t.tag = "meta"
        /\ ContainsAny(t.name, {"sign", "auth"})
        /\ ContainsAny(t.content, {"auth"}) }

\* the value of score at line 530
loginScore(page) == eachForm(page.forms, 0) + Cardinality(authTags(page))

\* detectLoginForm
detectLoginForm(page) == loginScore(page) >= DefaultLoginFormThreshold

\* forms, action attributes, form controls and tags of a page
RECURSIVE FormItems(_)
FormItems(forms) ==
    IF forms = << >> THEN 0
    ELSE 1 + Len(Head(forms).action) + Cardinality(Head(forms).els)
         + FormItems(Tail(forms))

Items(page) == FormItems(page.forms) + Cardinality(page.tags)

LoginInit ==
    /\ AnalysisEntry
    /\ NoTraffic
    /\ do = << >>
    /\ htmlContent = << >>
    /\ HTMLVersion = << >>
    /\ headingDoc = << >>
    /\ Headings = << >>
    /\ formDoc = [forms |-> << >>, tags |-> {}]
    /\ HasLoginForm = << detectLoginForm(formDoc) >>

\* line 185, result.HasLoginForm = a.detectLoginForm(doc), on the page p
Detect(p) ==
    /\ formDoc' = p
    /\ HasLoginForm' = << detectLoginForm(p) >>
    /\ UNCHANGED << analysisVars, httpVars, serverVars, htmlContent, HTMLVersion, headingDoc, Headings >>

\* the page gains an empty form and is analysed
AddForm ==
    /\ Items(formDoc) < MaxItems
    /\ Detect([formDoc EXCEPT !.forms = Append(@, EmptyForm)])

\* a form gains an action attribute and the page is analysed
SetAction ==
    /\ Items(formDoc) < MaxItems
    /\ \E f \in 1..Len(formDoc.forms), a \in FormActions :
        /\ formDoc.forms[f].action = << >>
        /\ Detect([formDoc EXCEPT !.forms[f].action = << a >>])

\* a form gains an element and the page is analysed
AddElement ==
    /\ Items(formDoc) < MaxItems
    /\ \E f \in 1..Len(formDoc.forms), e \in FormElements :
        /\ e \notin formDoc.forms[f].els
        /\ Detect([formDoc EXCEPT !.forms[f].els = @ \cup {e}])

\* the page gains a meta tag and is analysed
AddTag ==
    /\ Items(formDoc) < MaxItems
    /\ \E t \in PageTags :
        /\ t \notin formDoc.tags
        /\ Detect([formDoc EXCEPT !.tags = @ \cup {t}])

LoginNext == AddForm \/ SetAction \/ AddElement \/ AddTag

\* detectLoginForm on a page as it grows by one form, attribute, control or
\* tag at a time
LoginSpec == LoginInit /\ [][LoginNext]_vars

\* parseAndValidateURL called on an analyzer as NewAnalyzer returns it, for
\* every URL string of RawURLs.
URLInit ==
    /\ targetURL \in { URLOf(r) : r \in RawURLs }
    /\ ctxDone = FALSE
    /\ config = [MaxLinks |-> 1, MaxWorkers |-> 1]
    /\ cacheClient \in {"redis", "nil"}
    /\ store \in IF cacheClient = "nil" THEN {<< >>}
                 ELSE {<< >>, << CachedResult(targetURL) >>}
    /\ pc = "validate"
    /\ result = << >>
    /\ err = NilErr
    /\ parsedURL = NoURL
    /\ doc = << >>
    /\ LinkLocalsInit
    /\ getRet = NoReturn
    /\ setRet = NilErr
    /\ outcome = << >>
    /\ flow = NoFlow
    /\ enqueued = << >>
    /\ invoked = {}
    /\ fetchCanceled = FALSE
    /\ fetchAnswer = NoAnswer
    /\ hit = << >>
    /\ NoTraffic
    /\ do = << >>
    /\ NoPage

URLSpec == URLInit /\ [][ValidateURL]_vars

(* ---------------------------------------------------------------------- *)
(* Redirects: the CheckRedirect policy of the HTTP clients                 *)
(* ---------------------------------------------------------------------- *)
\* the clients: a.httpClient in fetchWebpage (GET), a.httpClient in
\* checkLinkWithTimeout (HEAD, external link), and the client
\* checkLinkWithTimeout creates for an internal link (HEAD)
Clients == {"fetch", "external", "internal"}

\* what a server answers to one request
RedirectStatuses == {301, 302}
FinalStatuses == {200, 404}
HopAnswers ==
    { [err |-> "", status |-> st] : st \in RedirectStatuses \cup FinalStatuses }
    \cup { [err |-> "transport", status |-> 0] }

\* variant of CheckRedirect: at the ceiling the client gives up with an error
CheckRedirect_Errors(via, MaxRedirects) ==
    IF via >= MaxRedirects THEN "stopped after too many redirects" ELSE "nil"

\* lines 65-70 and 399-404: CheckRedirect, given len(via)
CheckRedirect(via, MaxRedirects) ==
    IF via >= MaxRedirects THEN "ErrUseLastResponse" ELSE "nil"

\* one call of client.Do is about to send its first request
RedirectInit ==
    /\ AnalysisEntry
    /\ NoPage
    /\ rateLimit = [enabled |-> FALSE, burst |-> 0]
    /\ ips = << >>
    /\ c = << >>
    /\ served = 0
    /\ allowedBy = << >>
    /\ do \in { [client |-> cl, MaxRedirects |-> n, via |-> << >>, pos |-> "send",
                  followed |-> 0, answer |-> [err |-> "none", status |-> 0],
                  fetched |-> << >>, accessible |-> << >>] :
                cl \in Clients, n \in 0..MaxRedirectsBound }

\* http.Client.Do sends a request (the first, or the one a redirect asks
\* for) and gets an answer; via holds the answers to the requests so far
ClientSend ==
    /\ do.pos = "send"
    /\ \E a \in HopAnswers :
        do' = [do EXCEPT !.via = Append(@, a),
                         !.answer = a,
                         !.pos = IF a.err = "" /\ a.status \in RedirectStatuses
                                   THEN "redirect" ELSE "returned"]
    /\ UNCHANGED << analysisVars, pageVars, serverVars >>

\* http.Client.Do has a redirect response and asks CheckRedirect: it
\* follows, returns the last response, or fails
ClientRedirect ==
    /\ do.pos = "redirect"
    /\ LET verdict == CheckRedirect(Len(do.via), do.MaxRedirects) IN
        do' = IF verdict = "nil"
                THEN [do EXCEPT !.pos = "send", !.followed = @ + 1]
              ELSE IF verdict = "ErrUseLastResponse"
                THEN [do EXCEPT !.pos = "returned"]
              ELSE [do EXCEPT !.pos = "returned",
                              !.answer = [err |-> "transport", status |-> 0]]
    /\ UNCHANGED << analysisVars, pageVars, serverVars >>

\* lines 137-146 and 416-422: fetchWebpage, or checkLinkWithTimeout, gets
\* what client.Do returned
ClientReturn ==
    /\ do.pos = "returned"
    /\ do' = IF do.client = "fetch"
                THEN [do EXCEPT !.pos = "done",
                                !.fetched = << fetchWebpage([err |-> do.answer.err,
                                                             status |-> do.answer.status,
                                                             body |-> << >>]) >>]
                ELSE [do EXCEPT !.pos = "done",
                                !.accessible = << checkLinkWithTimeout(do.answer) >>]
    /\ UNCHANGED << analysisVars, pageVars, serverVars >>

RedirectNext == ClientSend \/ ClientRedirect \/ ClientReturn

\* one client.Do of the primary fetch or of a probe, against servers that
\* answer with redirects, final statuses or not at all
RedirectSpec == RedirectInit /\ [][RedirectNext]_vars

(* ---------------------------------------------------------------------- *)
(* POST /api/v1/analyze: rate limiter and analyze handler                  *)
(* ---------------------------------------------------------------------- *)
\* what c.ClientIP() returns
ClientIPs == {"10.0.0.1", "10.0.0.2"}

\* the string in the "url" field of a request body, by its length and what
\* url.Parse makes of it
URLString(raw, parses, scheme, host, len) ==
    [raw |-> raw, parses |-> parses, Scheme |-> scheme, Host |-> host, len |-> len]

RequestURLs ==
    { URLString("", TRUE, "", "", 0),
      URLString("http://example.com", TRUE, "http", "example.com", 18),
      URLString("invalid-url", TRUE, "", "", 11),
      URLString("ftp://example.com", TRUE, "ftp", "example.com", 17),
      URLString("http://", TRUE, "http", "", 7),
      URLString("http://[::1", FALSE, "", "", 11),
      URLString("http://example.com/a...(2048)", TRUE, "http", "example.com", 2048),
      URLString("http://example.com/a...(2049)", TRUE, "http", "example.com", 2049) }

\* request bodies: one that is not JSON, and JSON objects with a "url" field
\* (a missing field binds as the empty string)
Bodies ==
    { [json |-> FALSE, URL |-> URLString("", TRUE, "", "", 0)] }
    \cup { [json |-> TRUE, URL |-> u] : u \in RequestURLs }

\* the route's handler chain
handlers == << "RateLimit", "Handle" >>

\* a gin.Context: the request, the position in the handler chain, and as
\* history the verdict of the limiter, the statuses written, the functions
\* called, the verdict of validator.Struct and what Analyze returned (<< >>
\* when the handler did not get there)
Context(ip, body) ==
    [ClientIP |-> ip, body |-> body, index |-> 1, aborted |-> FALSE,
     allowed |-> "pending", written |-> << >>, called |-> {},
     valid |-> << >>, ret |-> << >>]

\* the handler of the chain that runs next, "" when the request is over
Running(ctx) ==
    IF ctx.aborted \/ ctx.index > Len(handlers) THEN "" ELSE handlers[ctx.index]

\* c.JSON(code, ...)
JSON(ctx, code) == [ctx EXCEPT !.written = Append(@, code)]

\* the handler returns or calls c.Next(): the chain goes on
ChainNext(ctx) == [ctx EXCEPT !.index = @ + 1]

\* c.Abort()
Abort(ctx) == [ctx EXCEPT !.aborted = TRUE]

\* the server with an empty limiter map; between requests
RouteInit ==
    /\ AnalysisEntry
    /\ NoPage
    /\ rateLimit \in [enabled : BOOLEAN, burst : 0..MaxBurst]
    /\ ips = << >>
    /\ c = [Context("", [json |-> FALSE, URL |-> URLString("", TRUE, "", "", 0)])
             EXCEPT !.index = Len(handlers) + 1]
    /\ served = 0
    /\ allowedBy = [ip \in ClientIPs |-> 0]
    /\ do = << >>

\* router.go 100-105: a POST /api/v1/analyze arrives and enters the chain
ServeHTTP ==
    /\ Running(c) = ""
    /\ served < MaxRequests
    /\ \E ip \in ClientIPs, body \in Bodies : c' = Context(ip, body)
    /\ served' = served + 1
    /\ UNCHANGED << analysisVars, httpVars, pageVars, rateLimit, ips, allowedBy >>

\* getLimiter: the map after the call
getLimiter(m, ip) ==
    IF ip \in DOMAIN m THEN m ELSE (ip :> rateLimit.burst) @@ m

\* rate.Limiter.Allow: a token is available
Allow(tokens) == tokens >= 1

\* variant of RateLimit: the denied request is not aborted
RateLimit_NoAbort ==
    /\ Running(c) = "RateLimit"
    /\ IF ~rateLimit.enabled
         THEN /\ c' = ChainNext([c EXCEPT !.allowed = "skipped"])
              /\ UNCHANGED << ips, allowedBy >>
         ELSE LET ip == c.ClientIP
                  m == getLimiter(ips, ip)
              IN  IF ~Allow(m[ip])
                    THEN /\ ips' = m
                         /\ c' = ChainNext(JSON([c EXCEPT !.allowed = "no"],
                                                StatusTooManyRequests))
                         /\ UNCHANGED allowedBy
                    ELSE /\ ips' = [m EXCEPT ![ip] = @ - 1]
                         /\ allowedBy' = [allowedBy EXCEPT ![ip] = @ + 1]
                         /\ c' = ChainNext([c EXCEPT !.allowed = "yes"])
    /\ UNCHANGED << analysisVars, httpVars, pageVars, rateLimit, served >>

\* ratelimit.go 53-76: the middleware
RateLimit ==
    /\ Running(c) = "RateLimit"
    /\ IF ~rateLimit.enabled
         THEN /\ c' = ChainNext([c EXCEPT !.allowed = "skipped"])
              /\ UNCHANGED << ips, allowedBy >>
         ELSE LET ip == c.ClientIP
                  m == getLimiter(ips, ip)
              IN  IF ~Allow(m[ip])
                    THEN /\ ips' = m
                         /\ c' = Abort(JSON([c EXCEPT !.allowed = "no"],
                                            StatusTooManyRequests))
                         /\ UNCHANGED allowedBy
                    ELSE /\ ips' = [m EXCEPT ![ip] = @ - 1]
                         /\ allowedBy' = [allowedBy EXCEPT ![ip] = @ + 1]
                         /\ c' = ChainNext([c EXCEPT !.allowed = "yes"])
    /\ UNCHANGED << analysisVars, httpVars, pageVars, rateLimit, served >>

\* time passes: the limiter of an IP gains a token, up to its burst
Refill ==
    /\ \E ip \in DOMAIN ips :
        /\ ips[ip] < rateLimit.burst
        /\ ips' = [ips EXCEPT ![ip] = @ + 1]
    /\ UNCHANGED << analysisVars, httpVars, pageVars, rateLimit, c, served, allowedBy >>

\* validator.Struct on `validate:"required,url"`: the verdicts it can give.
\* It rejects the empty string, a string url.Parse rejects and one without
\* a scheme; whether a URL without host passes depends on the validator.
validatorStruct(u) ==
    IF u.raw = "" \/ ~u.parses \/ u.Scheme = "" THEN {FALSE}
    ELSE IF u.Host = "" THEN {TRUE, FALSE}
    ELSE {TRUE}

\* request.go 15-38: AnalyzeRequest.Validate
Validate(u) ==
    IF u.len > MaxURLLength THEN Error("URL length exceeds maximum", 0)
    ELSE IF ~u.parses THEN Error("invalid URL format", 0)
    ELSE IF u.Scheme = "" \/ u.Host = "" THEN Error("URL must have both scheme and host", 0)
    ELSE IF u.Scheme # "http" /\ u.Scheme # "https"
      THEN Error("URL scheme must be http or https", 0)
    ELSE NilErr

\* what Analyze can return to the handler: a result, or an error
AnalyzeReturns(u) ==
    { [result |-> << AnalyzeResponse(u.raw, LinkAnalysis(0, 0, 0)) >>, err |-> NilErr],
      [result |-> << >>, err |-> Error("failed to fetch webpage", 0)] }

\* variant of AnalyzeHandlerHandle: the custom validation is left out
AnalyzeHandlerHandle_NoCustomValidation(ctx, valid, ret) ==
    LET entered == [ctx EXCEPT !.called = @ \cup {"Handle"}]
        bound == [entered EXCEPT !.valid = << valid >>]
    IN
    IF ~ctx.body.json THEN JSON(entered, StatusBadRequest)
    ELSE IF ~valid THEN JSON(bound, StatusBadRequest)
    ELSE LET called == [bound EXCEPT !.called = @ \cup {"Analyze"},
                                     !.ret = << ret >>] IN
         IF ret.err # NilErr THEN JSON(called, StatusInternalServerError)
         ELSE JSON(called, StatusOK)

\* analyze.go 29-80: the context after AnalyzeHandler.Handle, given the
\* verdict of validator.Struct and what Analyze returns if it is called
AnalyzeHandlerHandle(ctx, valid, ret) ==
    LET entered == [ctx EXCEPT !.called = @ \cup {"Handle"}]
        bound == [entered EXCEPT !.valid = << valid >>]
    IN
    IF ~ctx.body.json THEN JSON(entered, StatusBadRequest)
    ELSE IF ~valid THEN JSON(bound, StatusBadRequest)
    ELSE IF Validate(ctx.body.URL) # NilErr THEN JSON(bound, StatusBadRequest)
    ELSE LET called == [bound EXCEPT !.called = @ \cup {"Analyze"},
                                     !.ret = << ret >>] IN
         IF ret.err # NilErr THEN JSON(called, StatusInternalServerError)
         ELSE JSON(called, StatusOK)

\* router.go 104: the analyze handler runs
Handle ==
    /\ Running(c) = "Handle"
    /\ \E valid \in validatorStruct(c.body.URL), ret \in AnalyzeReturns(c.body.URL) :
        c' = ChainNext(AnalyzeHandlerHandle(c, valid, ret))
    /\ UNCHANGED << analysisVars, httpVars, pageVars, rateLimit, ips, served, allowedBy >>

RouteNext == ServeHTTP \/ RateLimit \/ Refill \/ Handle

\* up to MaxRequests requests to POST /api/v1/analyze, one at a time
RouteSpec == RouteInit /\ [][RouteNext]_vars

TypeOK ==
    /\ pc \in {"cache_get", "validate", "fetch", "fetching", "parse",
               "al_start", "al_walk", "al_ext", "al_int", "al_count",
               "cache_set", "done"}
    /\ wg \in Int
    /\ Len(result) <= 1

(* ---------------------------------------------------------------------- *)
(* Properties                                                              *)
(* ---------------------------------------------------------------------- *)
Min(a, b) == IF a < b THEN a ELSE b

IsPrefix(s, t) == Len(s) <= Len(t) /\ s = SubSeq(t, 1, Len(s))

\* analyzeLinks has returned its value: it is result.Links
LinksReturned == pc = "cache_set" \/ (pc = "done" /\ "set" \in invoked)

\* analyzeLinks has been entered
LinksStarted == workers # EmptyBag

\* the positions of the document's hrefs that resolve, by class
FoundLinks(internal) ==
    SelectSeq([i \in 1..Len(doc) |-> i],
              LAMBDA i : /\ doc[i].ok
                         /\ (ResolvedHost(parsedURL, doc[i]) = parsedURL.Host) = internal)

\* the admission the priority rule prescribes for budget B
ExpectedAdmission ==
    LET B == config.MaxLinks
        ext == FoundLinks(FALSE)
        int == FoundLinks(TRUE)
        nExt == Min(Len(ext), B)
        nInt == Min(Len(int), B - nExt)
    IN  [k \in 1..nExt |-> linkCheckRequest(ext[k], FALSE)]
        \o [k \in 1..nInt |-> linkCheckRequest(int[k], TRUE)]

\* the admitted tasks whose probe satisfies P
AdmittedWhere(P(_)) == { k \in DOMAIN enqueued : P(outcome[enqueued[k].url]) }

\* C1: the value analyzeLinks returns satisfies
\* 0 <= Inaccessible <= number of tasks admitted to the task queue <= B,
\* for every document, budget B >= 1, worker count W >= 1 and probe outcomes.
C1_InaccessibleWithinAdmitted ==
    /\ 0 <= analysis.Inaccessible
    /\ analysis.Inaccessible <= Len(enqueued)
    /\ Len(enqueued) <= config.MaxLinks
    /\ LinksReturned =>
         /\ 0 <= result[1].Links.Inaccessible
         /\ result[1].Links.Inaccessible <= Len(enqueued)

\* C1 witness: a document with more links than the budget, the budget is
\* used up and every admitted probe came back inaccessible
C1_Witness ==
    /\ LinksReturned
    /\ Len(FoundLinks(TRUE)) + Len(FoundLinks(FALSE)) > config.MaxLinks
    /\ Len(enqueued) = config.MaxLinks
    /\ result[1].Links.Inaccessible = Len(enqueued)
    /\ result[1].Links.Inaccessible > 0

\* C2: admission is external first under budget B: the requests enqueued are
\* the first min(E, B) external links in document order followed by the first
\* min(I, B - min(E, B)) internal links in document order, and a link that
\* was not admitted is never probed.
C2_ExternalFirstAdmission ==
    /\ IsPrefix(enqueued, ExpectedAdmission)
    /\ linkChan.closed => enqueued = ExpectedAdmission
    /\ \A i \in DOMAIN outcome :
         outcome[i].returned # "none" => \E k \in DOMAIN enqueued : enqueued[k].url = i
    /\ \A w \in BagToSet(workers) :
         w.linkReq # NoRequest => \E k \in DOMAIN enqueued : enqueued[k] = w.linkReq

\* C2 witness: budget 1, an internal link followed by an external link: the
\* external link was admitted and probed, the internal link, although first in
\* the document, was cut off and never probed
C2_Witness ==
    /\ pc = "done"
    /\ config.MaxLinks = 1
    /\ internalLinks = << 1 >>
    /\ externalLinks = << 2 >>
    /\ enqueued = << linkCheckRequest(2, FALSE) >>
    /\ outcome[2].returned # "none"
    /\ outcome[1].returned = "none"

\* C3: the Inaccessible count analyzeLinks returns is exactly the number of
\* admitted tasks whose probe returned inaccessible, whatever the interleaving
\* of the workers and the order in which the results arrive.
C3_CountsInaccessibleOutcomes ==
    LinksReturned =>
        /\ \A k \in DOMAIN enqueued : outcome[enqueued[k].url].returned # "none"
        /\ result[1].Links.Inaccessible =
             Cardinality(AdmittedWhere(LAMBDA o : o.returned = "inaccessible"))

\* C3 witness: two workers and two admitted tasks, the first probed accessible
\* and the second inaccessible; the returned count is 1
C3_Witness ==
    /\ LinksReturned
    /\ config.MaxWorkers = 2
    /\ Len(enqueued) = 2
    /\ outcome[enqueued[1].url].returned = "accessible"
    /\ outcome[enqueued[2].url].returned = "inaccessible"
    /\ result[1].Links.Inaccessible = 1

\* C4: with W >= 1, fair scheduling and probes that return, every call of
\* analyzeLinks eventually returns, for every document and every budget.
C4_AnalyzeLinksReturns == <>(pc = "cache_set")

\* C4 witness: analyzeLinks returned for a document with more links than the
\* budget and a single worker
C4_Witness ==
    /\ pc = "cache_set"
    /\ config.MaxWorkers = 1
    /\ Len(FoundLinks(TRUE)) + Len(FoundLinks(FALSE)) > config.MaxLinks
    /\ Len(enqueued) = config.MaxLinks

\* C5: when cache.Get returns a non-nil result without error, Analyze returns
\* that result unchanged with a nil error, and validation, fetch, parse, probes
\* and cache.Set are not invoked, also for a URL that would fail validation.
C5_CacheHitShortCircuits ==
    hit # << >> =>
        /\ pc = "done"
        /\ result = hit
        /\ err = NilErr
        /\ invoked = {}
        /\ store = hit
        /\ ~LinksStarted

\* C5 witness: a hit for a URL string that fails validation
C5_Witness ==
    /\ hit # << >>
    /\ pc = "done"
    /\ result = << CachedResult(targetURL) >>
    /\ parseAndValidateURL(targetURL) # NilErr

CacheErrorKinds == {"failed to get from cache", "failed to set cache"}

\* C6: a cache failure never changes what Analyze returns: after an error of
\* cache.Get, Analyze goes on to validation exactly as after a miss; after an
\* error of cache.Set, Analyze returns the assembled result with a nil error;
\* no error Analyze returns comes from the cache.
C6_CacheFailuresNeverSurface ==
    /\ [](pc = "done" => err.kind \notin CacheErrorKinds)
    /\ [](pc = "done" /\ setRet # NilErr =>
            /\ err = NilErr
            /\ result = << AnalyzeResponse(targetURL.raw, analysis) >>)
    /\ [][pc = "cache_get" /\ getRet'.err # NilErr =>
            /\ pc' = "validate"
            /\ hit' = << >>
            /\ UNCHANGED << result, err, store, invoked, cfgVars, httpVars, serverVars, parsedURL, doc,
                    linkVars >>]_vars

\* C6 witness: cache.Set failed and Analyze returned the result
C6_Witness ==
    /\ pc = "done"
    /\ setRet # NilErr
    /\ err = NilErr
    /\ result # << >>
    /\ store # result

\* a URL string that validation rejects
ValidationFails(u) ==
    ~u.parses \/ u.Scheme = "" \/ u.Host = "" \/ u.Scheme \notin {"http", "https"}

\* the GET was answered, and not by a readable 200
FetchFailed == fetchAnswer # NoAnswer /\ (fetchAnswer.err # "" \/ fetchAnswer.status # 200)

\* C7: on a cache miss, when validation fails or the fetch fails (transport
\* error or a status other than 200), Analyze returns a nil result and a
\* non-nil error, no probe is issued and cache.Set is not called, so that the
\* cache is unchanged; after a validation failure no fetch is issued.
C7_ValidationOrFetchFailureAborts ==
    /\ [](pc = "done" /\ hit = << >> /\ (ValidationFails(targetURL) \/ FetchFailed) =>
            /\ result = << >>
            /\ err # NilErr
            /\ "probe" \notin invoked
            /\ "set" \notin invoked
            /\ ~LinksStarted
            /\ (ValidationFails(targetURL) => "fetch" \notin invoked))
    /\ [][store' # store => pc = "cache_set"]_vars

\* C7 witness: the page answered 301 and Analyze returned the status error
C7_Witness ==
    /\ pc = "done"
    /\ fetchAnswer.err = ""
    /\ fetchAnswer.status = 301
    /\ err = Error("webpage returned status code", 301)
    /\ result = << >>

FetchErrorKinds ==
    {"failed to fetch webpage", "webpage returned status code",
     "failed to read response body"}

\* C8, as stated: every error Analyze returns comes from URL validation or
\* from the primary fetch.
C8_OnlyValidationOrFetchFail ==
    pc = "done" /\ err # NilErr =>
        err.kind \in {"invalid URL"} \cup FetchErrorKinds

\* C8, amended: every error Analyze returns comes from URL validation, from
\* the primary fetch or from parseHTML; cache lookup, link probing and cache
\* write never make Analyze return an error.
C8_ThreeFailurePaths ==
    /\ [](pc = "done" /\ err # NilErr =>
            /\ err.kind \in {"invalid URL", "failed to parse HTML"} \cup FetchErrorKinds
            /\ result = << >>
            /\ hit = << >>
            /\ ~LinksStarted
            /\ "set" \notin invoked)
    /\ [][err' # err /\ err' # NilErr => pc \in {"validate", "fetching", "parse"}]_vars

\* C8 witness: Analyze returned the error of parseHTML
C8_Witness ==
    /\ pc = "done"
    /\ err = Error("failed to parse HTML", 0)
    /\ fetchAnswer.err = ""
    /\ fetchAnswer.status = StatusOK

\* C9: once the page is fetched and link analysis runs, no probe outcome
\* makes Analyze fail: it returns a non-nil result with a nil error, and each
\* failed or cancelled admitted probe contributes exactly 1 to Inaccessible.
C9_ProbeFailuresOnlyCount ==
    /\ LinksStarted => err = NilErr
    /\ pc = "done" /\ LinksStarted =>
         /\ result # << >>
         /\ result[1].Links.Inaccessible =
              Cardinality(AdmittedWhere(LAMBDA o : o.failed))

\* C9 witness: the context was cancelled during probing: one admitted probe
\* had come back accessible, the other failed, and Analyze returned a result
C9_Witness ==
    /\ pc = "done"
    /\ ctxDone
    /\ ~fetchCanceled
    /\ Len(enqueued) = 2
    /\ Cardinality(AdmittedWhere(LAMBDA o : o.failed)) = 1
    /\ err = NilErr
    /\ result # << >>
    /\ result[1].Links.Inaccessible = 1

\* C10: a context cancelled while the main page GET is in flight cancels that
\* GET: Analyze aborts with an error and does not go on to analyse the
\* response.
C10_CancelAbortsFetch ==
    fetchCanceled =>
        /\ "parse" \notin invoked
        /\ pc = "done" => err # NilErr

\* C11: fetchWebpage succeeds, returning the body and a nil error, exactly
\* when a response arrived, its status is 200 and the body was read; any other
\* status gives an empty body and an error carrying that status; a transport
\* failure gives an empty body and a fetch error.
C11_FetchSucceedsOnlyOn200 ==
    [][pc = "fetching" /\ pc' # "fetching" =>
        LET a == fetchAnswer' IN
        /\ (pc' = "parse" /\ err' = NilErr /\ doc' = a.body)
              <=> (a.err = "" /\ a.status = 200)
        /\ (a.err = "" /\ a.status # 200) =>
              /\ doc' = << >>
              /\ pc' = "done"
              /\ err' = Error("webpage returned status code", a.status)
        /\ a.err = "transport" =>
              /\ doc' = << >>
              /\ pc' = "done"
              /\ err' = Error("failed to fetch webpage", 0)
        /\ err' # NilErr => doc' = << >>]_vars

\* C11 witness: the page answered 204 with a body; fetchWebpage returned an
\* empty body and an error carrying 204
C11_Witness ==
    /\ pc = "done"
    /\ fetchAnswer.err = ""
    /\ fetchAnswer.status = 204
    /\ fetchAnswer.body # << >>
    /\ doc = << >>
    /\ err.code = 204

\* C12: a probe is accessible exactly when it got a response whose status is
\* below 400; a request-construction error, a transport error, a timeout and
\* a status of 400 or more make it inaccessible.
C12_AccessibleIffBelow400 ==
    \A i \in DOMAIN outcome :
        outcome[i].returned # "none" =>
            (outcome[i].returned = "accessible" <=> ~outcome[i].failed)

\* C12 witness: while results are still being counted, an external probe has
\* come back accessible and an internal probe inaccessible
C12_Witness ==
    /\ pc = "al_count"
    /\ Len(enqueued) = 2
    /\ ~enqueued[1].isInternal
    /\ enqueued[2].isInternal
    /\ outcome[enqueued[1].url] = [returned |-> "accessible", failed |-> FALSE]
    /\ outcome[enqueued[2].url] = [returned |-> "inaccessible", failed |-> TRUE]

Resolvable == { i \in 1..Len(doc) : doc[i].ok }
SameHost == { i \in Resolvable : ResolvedHost(parsedURL, doc[i]) = parsedURL.Host }

\* C17: every href that resolves is counted in exactly one of Internal and
\* External, Internal exactly when its resolved host equals the base URL's
\* host, and an href that fails to resolve is counted in neither; the counts
\* returned do not depend on the budget, the workers or the probes.
C17_InternalPlusExternalIsResolvable ==
    /\ pc = "al_walk" =>
         /\ analysis.Internal = Cardinality({ i \in SameHost : i < idx })
         /\ analysis.External = Cardinality({ i \in Resolvable \ SameHost : i < idx })
    /\ pc \in {"al_ext", "al_int", "al_count"} =>
         /\ analysis.Internal = Cardinality(SameHost)
         /\ analysis.External = Cardinality(Resolvable \ SameHost)
    /\ LinksReturned =>
         /\ result[1].Links.Internal = Cardinality(SameHost)
         /\ result[1].Links.External = Cardinality(Resolvable \ SameHost)
         /\ result[1].Links.Internal + result[1].Links.External
              = Cardinality(Resolvable)

\* C17 witness: budget 1 and a document of an href that fails to resolve and
\* an external link whose probe failed: External is 1, Internal is 0
C17_Witness ==
    /\ LinksReturned
    /\ Len(doc) = 2
    /\ ~doc[1].ok
    /\ result[1].Links = LinkAnalysis(0, 1, 1)

\* parseAndValidateURL rejects u
Rejects(u) ==
    \/ ~u.parses
    \/ u.Scheme = ""
    \/ u.Host = ""
    \/ u.Scheme \notin {"http", "https"}

\* parseAndValidateURL returned a nil URL
ReturnedNil == ~parsedURL.parses /\ parsedURL.Scheme = "" /\ parsedURL.Host = ""

\* the string form of the URL parseAndValidateURL returned
ReturnedString == urlString(urlParse(parsedURL.raw))

\* C20, as stated: parseAndValidateURL returns nil and an "invalid URL" error
\* exactly when the string fails to parse, or its scheme or host is empty, or
\* its scheme is neither http nor https; otherwise it returns the parsed URL,
\* whose string form equals the input.
C20_RejectsOrReturnsInput ==
    "validate" \in invoked =>
        /\ (err.kind = "invalid URL" /\ ReturnedNil) <=> Rejects(targetURL)
        /\ ~Rejects(targetURL) =>
              /\ err = NilErr
              /\ ~ReturnedNil
              /\ ReturnedString = targetURL.raw

\* C20, amended: the rejection is as stated and the call changes no analyzer,
\* configuration or cache state; an accepted URL has scheme http or https and
\* a host, and its string form is the input whenever the input has a
\* lower-case scheme and no empty fragment, but not in general.
C20_RejectsOrReturnsParsed ==
    /\ []("validate" \in invoked =>
            /\ (err.kind = "invalid URL" /\ ReturnedNil) <=> Rejects(targetURL)
            /\ ~Rejects(targetURL) =>
                  /\ err = NilErr
                  /\ parsedURL = targetURL
                  /\ parsedURL.Scheme \in {"http", "https"}
                  /\ parsedURL.Host # ""
                  /\ (targetURL.raw.scheme = parsedURL.Scheme
                        /\ targetURL.raw.frag # << "" >>
                        => ReturnedString = targetURL.raw))
    /\ [][pc = "validate" =>
            UNCHANGED << cfgVars, httpVars, serverVars, pageVars, ctxDone, store, doc, linkVars,
                         setRet, fetchCanceled, fetchAnswer, hit >>]_vars

\* C20 witness: "HTTP://example.com" is accepted and returned with the scheme
\* "http", so that its string form is not the input
C20_Witness ==
    /\ pc = "fetch"
    /\ err = NilErr
    /\ targetURL.raw = [scheme |-> "HTTP", authority |-> << "example.com" >>,
                        path |-> "", frag |-> << >>]
    /\ parsedURL.Scheme = "http"
    /\ ReturnedString # targetURL.raw

\* the doctype token of the markup under analysis
Token == extractDOCTYPE(htmlContent)

\* the labels the specification enumerates
EnumeratedLabels ==
    {"HTML5", "XHTML 1.1", "XHTML 1.0", "XHTML 1.0 Strict",
     "XHTML 1.0 Transitional", "XHTML 1.0 Frameset", "HTML 4.01",
     "HTML 4.01 Strict", "HTML 4.01 Transitional", "HTML 4.01 Frameset",
     "HTML 4.0", "HTML 3.2", "HTML 2.0", "XHTML", "HTML", "Unknown"}

\* C13: detectHTMLVersion returns one label of the enumerated set for every
\* markup, and "Unknown" for a doctype token that contains neither "XHTML"
\* nor "HTML".
C13_LabelIsEnumerated ==
    \A i \in 1..Len(HTMLVersion) :
        /\ HTMLVersion[i] \in EnumeratedLabels
        /\ (Token.match /\ ~Contains(Token, "XHTML") /\ ~Contains(Token, "HTML")
              => HTMLVersion[i] = "Unknown")

\* C14: detectHTMLVersion is deterministic: two evaluations on the same
\* markup return the same label, also when the token contains several of the
\* keywords "HTML 4.0", "HTML 3.2", "HTML 2.0".
C14_SameMarkupSameLabel ==
    \A i, j \in 1..Len(HTMLVersion) : HTMLVersion[i] = HTMLVersion[j]

\* the label of a family given the sub-variant keywords in the token
VariantLabel(base, strict, transitional, frameset) ==
    IF Contains(Token, "STRICT") THEN strict
    ELSE IF Contains(Token, "TRANSITIONAL") THEN transitional
    ELSE IF Contains(Token, "FRAMESET") THEN frameset
    ELSE base

\* C15: for a token that is neither empty nor the bare "<!DOCTYPE HTML>", the
\* first family of XHTML 1.1, XHTML 1.0, HTML 4.01 whose keyword the token
\* contains gives the label; XHTML 1.0 and HTML 4.01 take the first of
\* STRICT, TRANSITIONAL, FRAMESET the token contains, or the base label;
\* XHTML 1.1 has no sub-variant; checkHTMLVersionWithVariants returns ""
\* when the family keyword is absent.
C15_FamilyPriority ==
    /\ \A i \in 1..Len(HTMLVersion) :
         Token.match /\ Token.words # {"HTML"} =>
           /\ Contains(Token, "XHTML 1.1") => HTMLVersion[i] = "XHTML 1.1"
           /\ ~Contains(Token, "XHTML 1.1") /\ Contains(Token, "XHTML 1.0") =>
                HTMLVersion[i] = VariantLabel("XHTML 1.0", "XHTML 1.0 Strict",
                                     "XHTML 1.0 Transitional", "XHTML 1.0 Frameset")
           /\ ~Contains(Token, "XHTML 1.1") /\ ~Contains(Token, "XHTML 1.0")
                /\ Contains(Token, "HTML 4.01") =>
                HTMLVersion[i] = VariantLabel("HTML 4.01", "HTML 4.01 Strict",
                                     "HTML 4.01 Transitional", "HTML 4.01 Frameset")
    /\ \A k \in {"XHTML 1.1", "XHTML 1.0", "HTML 4.01"} :
         ~Contains(Token, k) =>
           checkHTMLVersionWithVariants(Token, k, k, "s", "t", "f") = ""

\* C15 witness: a token with XHTML 1.0, HTML 4.01 and STRICT, after an XML
\* declaration, was labelled XHTML 1.0 Strict
C15_Witness ==
    /\ htmlContent.lead = << "xml" >>
    /\ htmlContent.doctype = << {"XHTML 1.0", "HTML 4.01", "strict"} >>
    /\ HTMLVersion = << "XHTML 1.0 Strict" >>

\* the heading elements of the document
HeadingElements == { i \in 1..Len(headingDoc) : headingDoc[i] \in HeadingTags }

\* C16: countHeadings returns a map with exactly the keys h1..h6, every value
\* is at least 0, a level that does not occur has 0, and the six values sum
\* to the number of heading elements of the document.
C16_HeadingsMapComplete ==
    Headings # << >> =>
        LET h == Headings[1] IN
        /\ DOMAIN h = {"h1", "h2", "h3", "h4", "h5", "h6"}
        /\ \A k \in DOMAIN h :
             /\ h[k] >= 0
             /\ h[k] = Cardinality({ i \in HeadingElements : headingDoc[i] = k })
        /\ h["h1"] + h["h2"] + h["h3"] + h["h4"] + h["h5"] + h["h6"]
             = Cardinality(HeadingElements)

\* C16 witness: a document with two h6, one paragraph and no other heading
C16_Witness ==
    /\ headingDoc = << "h6", "p", "h6" >>
    /\ Headings # << >>
    /\ Headings[1]["h6"] = 2
    /\ Headings[1]["h1"] = 0

\* the signals of a form, as the specification lists them
AuthLikeAction(form) == form.action \in {<< "/login" >>}
MatchingSubmits(form) == form.els \cap {LoginButton, GoogleSubmit}
SignalScore(form) ==
      (IF AuthLikeAction(form) THEN 3 ELSE 0)
    + (IF PasswordInput \in form.els THEN 4 ELSE 0)
    + (IF form.els \cap {TextInput, EmailInput} # {} THEN 3 ELSE 0)
    + 2 * Cardinality(MatchingSubmits(form))
    + (IF RememberMe \in form.els THEN 2 ELSE 0)
    + (IF ForgotLink \in form.els THEN 2 ELSE 0)
    + (IF form.els \cap {GoogleButton, GoogleSubmit} # {} THEN 2 ELSE 0)

\* the highest signal score of a form of the page, 0 without a form
MaxSignalScore ==
    IF formDoc.forms = << >> THEN 0
    ELSE CHOOSE m \in { SignalScore(formDoc.forms[f]) : f \in 1..Len(formDoc.forms) } :
           \A f \in 1..Len(formDoc.forms) : SignalScore(formDoc.forms[f]) <= m

QualifyingTags ==
    formDoc.tags \cap {Tag("meta", "auth-provider", "oauth2"),
                       Tag("meta", "google-signin-client_id", "auth.example")}

\* C18: detectLoginForm returns true exactly when the highest score of a form
\* (0 without a form) plus the number of qualifying page-level tags is at
\* least 10; scores of different forms are never added; a form with only a
\* text field, a password field and a "Login" submit scores 9 and gives
\* false, and with an action containing "login" it scores 12 and gives true.
C18_MaxFormScorePlusTags ==
    /\ HasLoginForm = << MaxSignalScore + Cardinality(QualifyingTags) >= 10 >>
    /\ \A f \in 1..Len(formDoc.forms) :
         formDoc.forms[f].els = {TextInput, PasswordInput, LoginButton} =>
           /\ formDoc.forms[f].action = << >> => formScore(formDoc.forms[f]) = 9
           /\ formDoc.forms[f].action = << "/login" >> =>
                formScore(formDoc.forms[f]) = 12
    /\ (Len(formDoc.forms) = 1 /\ formDoc.tags = {}
          /\ formDoc.forms[1].els = {TextInput, PasswordInput, LoginButton}) =>
           HasLoginForm = << formDoc.forms[1].action = << "/login" >> >>

\* C18 witness: two forms scoring 7 and 4: their scores would add up to 11,
\* and the page has no login form
C18_Witness ==
    /\ Len(formDoc.forms) = 2
    /\ formDoc.forms[1].els = {TextInput, PasswordInput}
    /\ formDoc.forms[2].els = {PasswordInput}
    /\ HasLoginForm = << FALSE >>

\* C19: the login score is monotonic: a form, an attribute, a control or a
\* tag added to the page never lowers the score of a form the page had nor
\* the final score, and never turns hasLoginForm from true to false.
C19_LoginScoreMonotonic ==
    [][/\ \A f \in 1..Len(formDoc.forms) :
            formScore(formDoc'.forms[f]) >= formScore(formDoc.forms[f])
       /\ loginScore(formDoc') >= loginScore(formDoc)
       /\ HasLoginForm = << TRUE >> => HasLoginForm' = << TRUE >>]_vars

\* C19 witness: a login form scoring 10 followed by a form scoring 0: the
\* page still has a login form
C19_Witness ==
    /\ Len(formDoc.forms) = 2
    /\ formScore(formDoc.forms[1]) = 10
    /\ formDoc.forms[2] = EmptyForm
    /\ HasLoginForm = << TRUE >>

\* the request in c has left the handler chain
Over == Running(c) = "" /\ served > 0

\* C21: with rate limiting enabled a request the limiter of its IP does not
\* allow is answered with 429 and neither the analyze handler nor Analyze
\* runs for it; an IP is denied only when its own limiter has allowed at
\* least burst requests, whatever other IPs did; a request that is allowed,
\* and every request when rate limiting is disabled, reaches the handler.
C21_DeniedGets429PerIP ==
    /\ c.allowed = "no" =>
          /\ rateLimit.enabled
          /\ c.written = << StatusTooManyRequests >>
          /\ c.called = {}
          /\ allowedBy[c.ClientIP] >= rateLimit.burst
    /\ Over /\ c.allowed # "no" => "Handle" \in c.called
    /\ Over /\ ~rateLimit.enabled => c.allowed = "skipped" /\ "Handle" \in c.called

\* C21 witness: a request is denied and answered with 429 although the
\* burst is not 0, while the other IP has had a request allowed
C21_Witness ==
    /\ Over
    /\ c.allowed = "no"
    /\ c.written = << StatusTooManyRequests >>
    /\ rateLimit.burst >= 1
    /\ \E ip \in ClientIPs \ {c.ClientIP} : allowedBy[ip] >= 1

\* the custom validation, as the specification states it
CustomValidationFails(u) ==
    \/ u.len > 2048
    \/ ~u.parses
    \/ u.Scheme = "" \/ u.Host = ""
    \/ u.Scheme \notin {"http", "https"}

\* C22: the analyze handler writes exactly one response; it is 400, and
\* Analyze is not called, when the JSON binding, the struct validation or
\* the custom validation fails; otherwise Analyze is called and the response
\* is 500 if Analyze returns an error and 200 if not.
C22_StatusFromFirstFailingStep ==
    "Handle" \in c.called /\ Running(c) # "Handle" =>
        LET failing == \/ ~c.body.json
                       \/ c.valid = << FALSE >>
                       \/ CustomValidationFails(c.body.URL)
        IN  /\ Len(c.written) = 1
            /\ failing => c.written[1] = 400 /\ "Analyze" \notin c.called
            /\ ~failing =>
                  /\ "Analyze" \in c.called
                  /\ Len(c.ret) = 1
                  /\ c.written[1] = IF c.ret[1].err # NilErr THEN 500 ELSE 200

\* C22 witness: a request that binds and passes the struct validation is
\* rejected by the custom validation (its URL has 2049 characters)
C22_Witness ==
    /\ Over
    /\ c.body.json
    /\ c.valid = << TRUE >>
    /\ c.body.URL.len = 2049
    /\ c.written = << 400 >>
    /\ "Analyze" \notin c.called

\* the sum of f[1..n]
RECURSIVE SumTo(_, _)
SumTo(f, n) == IF n = 0 THEN 0 ELSE f[n] + SumTo(f, n - 1)

\* the number of worker goroutines whose position is in S
RECURSIVE CountCopies(_)
CountCopies(ws) ==
    IF ws = {} THEN 0
    ELSE LET w == CHOOSE x \in ws : TRUE
         IN  CopiesIn(w, workers) + CountCopies(ws \ {w})
WorkersAt(S) == CountCopies({ w \in BagToSet(workers) : w.pc \in S })

\* C23: the task queue is closed only after every admitted task has been
\* enqueued; the result queue is closed only after the result of every
\* admitted task has been sent; analyzeLinks returns only after the result
\* queue is closed, having counted the result of every admitted task.
C23_QueuesClosedAfterWork ==
    /\ linkChan.closed => enqueued = ExpectedAdmission
    /\ resultChan.closed => linkChan.closed /\ flow.sent = Len(enqueued)
    /\ flow.counted <= flow.sent
    /\ LinksReturned =>
         /\ resultChan.closed
         /\ resultChan.buf = << >>
         /\ flow.counted = Len(enqueued)

\* C23 witness: analyzeLinks returned after one worker served two admitted
\* tasks, and both results were counted
C23_Witness ==
    /\ LinksReturned
    /\ config.MaxWorkers = 1
    /\ Len(enqueued) = 2
    /\ flow.counted = 2

\* the main goroutine is at a send on the task queue
EnqueuePending ==
    \/ pc = "al_ext" /\ ExternalPending
    \/ pc = "al_int" /\ idx < internalLinksToCheck

\* C24: the task queue and the result queue have capacity B and never hold
\* more than B items; an enqueue of an admitted task and a worker's send of
\* a result are always possible at once, also while no worker has taken a
\* task and while the main goroutine has not begun to read results.
C24_QueuesNeverBlock ==
    LinksStarted =>
        /\ ChanCap = config.MaxLinks
        /\ Len(linkChan.buf) <= config.MaxLinks
        /\ Len(resultChan.buf) <= config.MaxLinks
        /\ EnqueuePending => CanSend(linkChan)
        /\ WorkersAt({"send"}) > 0 => CanSend(resultChan)

\* C24 witness: the budget is 2, both admitted tasks sit in the task queue
\* and no worker has taken one
C24_Witness ==
    /\ config.MaxLinks = 2
    /\ Len(linkChan.buf) = 2
    /\ WorkersAt({"recv"}) = config.MaxWorkers
    /\ pc = "al_int"

\* a worker holds a task: it has received it and not yet called wg.Done()
HoldingTask == {"probe", "send", "wgdone"}

\* C25: no task is enqueued and no probe starts before the link enumeration
\* has ended: whenever a task has been enqueued, a worker holds a task or a
\* probe is in flight, the lists of internal and external links and the
\* Internal and External counters have their final values, and they keep
\* them until analyzeLinks returns.
C25_EnumerationBeforeDispatch ==
    LET final ==
          /\ internalLinks = FoundLinks(TRUE)
          /\ externalLinks = FoundLinks(FALSE)
          /\ analysis.Internal = Len(FoundLinks(TRUE))
          /\ analysis.External = Len(FoundLinks(FALSE))
    IN  /\ pc \in {"al_start", "al_walk"} =>
              /\ enqueued = << >>
              /\ linkChan.buf = << >>
              /\ WorkersAt(HoldingTask) = 0
        /\ (enqueued # << >> \/ WorkersAt(HoldingTask) > 0) => final
        /\ LinksStarted /\ pc \notin {"al_start", "al_walk"} => final

\* C25 witness: both workers probe while the main goroutine is still in
\* analyzeLinks, for a document with an internal and an external link
C25_Witness ==
    /\ WorkersAt({"probe"}) = 2
    /\ pc \in {"al_int", "al_count"}
    /\ analysis.Internal = 1
    /\ analysis.External = 1

\* C26: at most W probes are in flight, W being the configured number of
\* workers: the pool has W goroutines, the tasks received and not yet probed
\* are at most W, and the tasks received whose wg.Done() is still due are at
\* most W (a worker holds one task and receives the next after Done).
C26_AtMostWProbes ==
    LinksStarted =>
        LET n == Len(doc)
            received == SumTo(flow.taken, n)
            done == Len(enqueued) - wg
        IN  /\ BagCardinality(workers) = config.MaxWorkers
            /\ WorkersAt({"probe"}) <= config.MaxWorkers
            /\ received - SumTo(flow.probed, n) <= config.MaxWorkers
            /\ received - SumTo(flow.probed, n) = WorkersAt({"probe"})
            /\ received - done <= config.MaxWorkers

\* C26 witness: one worker, two admitted tasks: the worker probes the first
\* while the second waits in the task queue
C26_Witness ==
    /\ config.MaxWorkers = 1
    /\ WorkersAt({"probe"}) = 1
    /\ Len(linkChan.buf) = 1
    /\ Len(enqueued) = 2

\* C28: every admitted task is received by one worker, probed once and
\* gives one result: no link is received or probed twice, only admitted
\* tasks are received, and when analyzeLinks returns every admitted task has
\* been received and probed once and the results counted are as many as
\* the admitted tasks.
C28_EachTaskProbedOnce ==
    /\ \A i \in DOMAIN flow.taken :
          /\ flow.taken[i] <= 1
          /\ flow.probed[i] <= flow.taken[i]
          /\ flow.taken[i] = 1 => \E k \in DOMAIN enqueued : enqueued[k].url = i
    /\ flow.sent <= SumTo(flow.probed, Len(flow.probed))
    /\ LinksReturned =>
          /\ \A k \in DOMAIN enqueued :
                flow.taken[enqueued[k].url] = 1 /\ flow.probed[enqueued[k].url] = 1
          /\ flow.sent = Len(enqueued)
          /\ flow.counted = Len(enqueued)

\* C28 witness: two workers shared two admitted tasks and analyzeLinks
\* returned with two results counted
C28_Witness ==
    /\ LinksReturned
    /\ config.MaxWorkers = 2
    /\ Len(enqueued) = 2
    /\ flow.taken = << 1, 1 >>
    /\ flow.counted = 2

\* C29: analyzeLinks never panics on its synchronisation: the wait-group
\* counter is never negative; once the result queue is closed no worker has
\* a result to send or a task to take; the task queue is closed only when
\* the main goroutine has left the enqueue loops; wg.Wait() begins only
\* after every wg.Add(1); and the counter covers every enqueued task whose
\* result has not been sent.
C29_NoPanicOnSync ==
    /\ wg >= 0
    /\ resultChan.closed =>
          /\ WorkersAt(HoldingTask) = 0
          /\ linkChan.buf = << >>
          /\ wg = 0
    /\ linkChan.closed => pc \notin {"al_start", "al_walk", "al_ext", "al_int"}
    /\ cpc # "unborn" => linkChan.closed /\ enqueued = ExpectedAdmission
    /\ wg >= Len(enqueued) - flow.sent
    /\ wg = Len(linkChan.buf) + WorkersAt(HoldingTask)

\* C29 witness: the barrier goroutine has closed the result queue after two
\* workers finished two tasks
C29_Witness ==
    /\ resultChan.closed
    /\ cpc = "exit"
    /\ config.MaxWorkers = 2
    /\ flow.sent = 2
    /\ wg = 0

\* the statuses of the answers client.Do has received
IsRedirect(a) == a.err = "" /\ a.status \in {301, 302}

\* C27: for the primary fetch and for every probe, the redirects followed
\* never exceed the configured MaxRedirects; at the ceiling client.Do
\* returns the last redirect response and no error; with the ceiling 0 no
\* redirect is followed, a 3xx answer makes the primary fetch fail with that
\* status and makes a probe accessible.
C27_RedirectCeiling ==
    /\ do.followed <= do.MaxRedirects
    /\ do.MaxRedirects = 0 => do.followed = 0 /\ Len(do.via) <= 1
    /\ do.pos \in {"returned", "done"} /\ IsRedirect(do.via[Len(do.via)]) =>
          do.answer = do.via[Len(do.via)]
    /\ do.pos = "done" /\ do.MaxRedirects = 0 /\ IsRedirect(do.via[1]) =>
          IF do.client = "fetch"
            THEN /\ do.fetched[1].err.kind = "webpage returned status code"
                 /\ do.fetched[1].err.code = do.via[1].status
                 /\ do.fetched[1].body = << >>
            ELSE do.accessible = << TRUE >>

\* C27 witness: with the ceiling 2 the probe of an internal link followed a
\* redirect and got the second redirect response as its final response
C27_Witness ==
    /\ do.pos = "done"
    /\ do.client = "internal"
    /\ do.MaxRedirects = 2
    /\ do.followed = 1
    /\ Len(do.via) = 2
    /\ IsRedirect(do.via[2])
    /\ do.accessible = << TRUE >>

\* every goroutine analyzeLinks started has returned
GoroutinesGone ==
    /\ BagCardinality(workers) = config.MaxWorkers
    /\ WorkersAt({"exit"}) = config.MaxWorkers
    /\ cpc = "exit"

\* C30: under fair scheduling and with probes that return, each of the W
\* workers analyzeLinks started and the barrier goroutine eventually exits
\* and stays gone, for every document (also one without links, and one
\* with fewer admitted tasks than workers) and also when the context is
\* cancelled.
C30_GoroutinesExit == <>[]GoroutinesGone

\* C30 witness: both workers and the barrier goroutine have exited after a
\* single admitted task, probed with the context cancelled
C30_Witness ==
    /\ GoroutinesGone
    /\ config.MaxWorkers = 2
    /\ Len(enqueued) = 1
    /\ ctxDone
    /\ outcome[enqueued[1].url].returned = "inaccessible"

====
